---- MODULE Spec2Model ----
(***************************************************************************)
(* Registration state machines and payment ledger of the icpc-2025 backend *)
(* (src/mono/competitions, src/mono/presentations, src/mono/payment).      *)
(*                                                                         *)
(* Every request handler runs inside transaction.atomic: a handler that    *)
(* raises leaves the relational store as it was before the call.  One      *)
(* action models one whole handler call; `last` records what the call was  *)
(* and how it ended, so that properties can speak about its outcome.       *)
(***************************************************************************)
EXTENDS Integers, Sequences, FiniteSets, Bags, TLC

(***************************************************************************)
(* Bounds of the model.                                                    *)
(***************************************************************************)
MaxPayments == 2     \* Payment rows
MaxRecords == 1      \* TeamRequest rows plus Registration rows

(***************************************************************************)
(* Population and catalogue (rows that exist before any workflow runs).    *)
(***************************************************************************)
Users == {1, 2}
Emails == {"a", "b"}

\* The e-mail address of a user account.
UserEmail(u) == IF u = 1 THEN "u1" ELSE "u2"

\* Approval tokens are named after the member they were minted for; "forged"
\* was minted for nobody.
Tokens == Emails \cup {"forged"}

\* Days: the lifetime of an approval token, and the ages at which one is used.
APPROVAL_TOKEN_TTL == 1
Ages == {0, 2}

\* Competition rows: 1 needs backoffice investigation, 2 goes straight to payment.
Comps == {1, 2}

\* A competition saved without a fee (signup_fee has default 0) and without
\* backoffice investigation.
FreeComps == {3}

Competition(c) ==
    [requires_backoffice_approval |-> (c = 1),
     signup_fee |-> IF c \in FreeComps THEN 0 ELSE 5,
     min_team_size |-> 2,
     max_team_size |-> 2]

\* Course.capacity = models.PositiveIntegerField(default=0): the column is not
\* nullable, a course saved without a capacity holds the default.
DefaultCapacity == 0

\* Course rows: 1 is a paid parent with child 3, 2 is a free parent with the
\* free child 6, 3 is a paid child that needs approval, 4 is closed
\* (capacity 0), 5 was saved without a capacity.
Courses == {1, 2, 3}
WithoutCapacity == {5}
Course(c) ==
    CASE c = 1 -> [capacity |-> 1, price |-> 10, requires_approval |-> FALSE,
                   children |-> {3}, is_active |-> TRUE]
      [] c = 2 -> [capacity |-> 2, price |-> 0, requires_approval |-> FALSE,
                   children |-> {6}, is_active |-> TRUE]
      [] c = 4 -> [capacity |-> 0, price |-> 0, requires_approval |-> FALSE,
                   children |-> {}, is_active |-> TRUE]
      [] c = 5 -> [capacity |-> DefaultCapacity, price |-> 0, requires_approval |-> FALSE,
                   children |-> {}, is_active |-> TRUE]
      [] c = 6 -> [capacity |-> 2, price |-> 0, requires_approval |-> FALSE,
                   children |-> {}, is_active |-> TRUE]
      [] OTHER -> [capacity |-> 1, price |-> 5, requires_approval |-> TRUE,
                   children |-> {}, is_active |-> TRUE]

\* What the public initiate endpoint is called with: the target and the amount.
PublicTargets == {<<"COMPETITION", 1>>, <<"COMPETITION", 2>>}
PublicAmounts == {1}

\* Who submits team requests and registrations; every user calls the payment
\* endpoints.
Submitters == {1}

\* The child selections a course submit is called with.
ChildSelections == SUBSET {2, 3}

\* Answers of the gateway: HTTP/transport failure, code 100, any other code.
VerifyAnswers == {"transport", "100", "other"}
RequestAnswers == {"transport", "100", "refused"}

VARIABLES
    payments,   \* Payment rows, id = index
    requests,   \* TeamRequest rows with their TeamMember rows, id = index
    regs,       \* Registration rows with their RegistrationItem rows, id = index
    last,       \* the last handler call: its arguments and its outcome
    txns        \* open database transactions of concurrent calls, by token

vars == <<payments, requests, regs, last, txns>>

(***************************************************************************)
(* The store as one value, so that a handler's body is a function from the *)
(* store before the call to the store at the point where it returns or     *)
(* raises.                                                                 *)
(***************************************************************************)
Store == [p |-> payments, t |-> requests, r |-> regs]

\* Ids 1..n as a sequence in ascending order.
IdSeq(n) == [i \in 1..n |-> i]

\* The elements of a sequence that satisfy Test, in order.
SelectIds(seq, Test(_)) == SelectSeq(seq, Test)

(***************************************************************************)
(* Payment.target_id.  The services pass str(target_id): a CSV string,     *)
(* modelled as the sequence of its ids.  The column is a                   *)
(* PositiveIntegerField: storing converts with int(), which fails on a     *)
(* string with a comma, and a row read back holds an int.                  *)
(***************************************************************************)
Str(n) == <<n>>

IntField(csv) ==
    IF Len(csv) = 1 THEN [ok |-> TRUE, v |-> csv[1]] ELSE [ok |-> FALSE, v |-> 0]

\* A split that also reads a stored integer id, as the list of that one id.
SplitStoredTargetId(tid) ==
    IF tid \in Int THEN [ok |-> TRUE, ids |-> {tid}]
    ELSE [ok |-> TRUE, ids |-> {tid[i] : i \in DOMAIN tid}]

\* payment.target_id.split(","): only a str has split(); a stored id is an int.
SplitTargetId(tid) ==
    IF tid \in Int THEN [ok |-> FALSE, ids |-> {}]
    ELSE [ok |-> TRUE, ids |-> {tid[i] : i \in DOMAIN tid}]

NewPayment(user, ttype, tidv, amount, status, authority, reg_id) ==
    [user |-> user, ttype |-> ttype, tid |-> tidv, amount |-> amount,
     status |-> status, authority |-> authority, ref |-> FALSE, reg_id |-> reg_id]

\* send_status_change_email(to, status_code=code)
Mail(to, code) == SetToBag({<<to, code>>})

\* one send_status_change_email per address
MailEach(addresses, code) == SetToBag({<<to, code>> : to \in addresses})

(***************************************************************************)
(* competitions/services.py: mark_payment_final, mark_payment_rejected.    *)
(* Each is given with the notifications it queues.                         *)
(***************************************************************************)
mark_payment_final(t, rid) == [t EXCEPT ![rid].status = "FINAL"]

mark_payment_final_mails(t, rid) ==
    MailEach(DOMAIN t[rid].members, "COMPETITION_REQUEST_FINAL")

\* A rejection that leaves the request as it is.
mark_payment_rejected_nowhere(t, rid) == t

mark_payment_rejected(t, rid) == [t EXCEPT ![rid].status = "PAYMENT_REJECTED"]

mark_payment_rejected_mails(t, rid) ==
    Mail(UserEmail(t[rid].submitter), "COMPETITION_PAYMENT_REJECTED")

(***************************************************************************)
(* presentations/services.py: set_status_final(regs).                      *)
(***************************************************************************)
set_status_final(r, ids) ==
    [i \in DOMAIN r |->
        IF i \in ids THEN [r[i] EXCEPT !.status = "FINAL", !.decided = TRUE] ELSE r[i]]

\* One notification, to the user of the first registration of the list.
set_status_final_mails(r, ids) ==
    IF ids = {} THEN EmptyBag
    ELSE LET first == CHOOSE i \in ids : \A j \in ids : i <= j
         IN  Mail(UserEmail(r[first].user), "COURSE_REQUEST_FINAL")

(***************************************************************************)
(* payment/domain_hooks.py.  Each returns the store, the exception the     *)
(* hook raised ("none" when it returned) and the notifications it queued.  *)
(***************************************************************************)
on_payment_success(s, pay) ==
    IF pay.ttype = "COMPETITION" THEN
        IF pay.tid \in DOMAIN s.t
        THEN [s |-> [s EXCEPT !.t = mark_payment_final(s.t, pay.tid)], err |-> "none",
              mails |-> mark_payment_final_mails(s.t, pay.tid)]
        ELSE [s |-> s, err |-> "TeamRequest.DoesNotExist", mails |-> EmptyBag]
    ELSE
        LET parsed == SplitTargetId(pay.tid) IN
        IF ~parsed.ok THEN [s |-> s, err |-> "AttributeError", mails |-> EmptyBag]
        ELSE [s |-> [s EXCEPT !.r = set_status_final(s.r, parsed.ids \cap DOMAIN s.r)],
              err |-> "none",
              mails |-> set_status_final_mails(s.r, parsed.ids \cap DOMAIN s.r)]

on_payment_failure(s, pay) ==
    IF pay.ttype = "COMPETITION" THEN
        IF pay.tid \in DOMAIN s.t
        THEN [s |-> [s EXCEPT !.t = mark_payment_rejected(s.t, pay.tid)], err |-> "none",
              mails |-> mark_payment_rejected_mails(s.t, pay.tid)]
        ELSE [s |-> s, err |-> "TeamRequest.DoesNotExist", mails |-> EmptyBag]
    ELSE [s |-> s, err |-> "none", mails |-> EmptyBag]

(***************************************************************************)
(* payment/services.py: initiate_payment_for_target.                       *)
(*                                                                         *)
(* unv   : the authorities _unverified_list() returned ({} also when the   *)
(*         listing failed: the helper swallows the failure)                *)
(* vresp : the gateway's answer to _verify_payment, per authority          *)
(* rresp : the gateway's answer to _request_payment                        *)
(***************************************************************************)
PendingIdsOf(pays, user) ==
    LET IsPending(i) == pays[i].user = user /\ pays[i].status = "PENDING"
    IN  SelectIds(IdSeq(Len(pays)), IsPending)

\* Step 1, the loop over the user's PENDING payments, in id order.  A result
\* with err # "none" is the state in which the exception was raised.
RECURSIVE Reconcile(_, _, _, _, _, _, _)
Reconcile(pays, ids, unv, vresp, ttype, tid, acc) ==
    IF ids = <<>> THEN [acc EXCEPT !.pays = pays]
    ELSE
        LET i == Head(ids)
            pay == pays[i]
        IN
        IF pay.authority # 0 /\ pay.authority \in unv THEN
            LET called == [acc EXCEPT !.gwVerify = @ + 1] IN
            CASE vresp[pay.authority] = "transport" ->
                    [called EXCEPT !.pays = pays, !.err = "RequestException"]
              [] vresp[pay.authority] = "100" ->
                    LET saved == [pays EXCEPT ![i].status = "SUCCESSFUL", ![i].ref = TRUE]
                        got == [called EXCEPT !.rec100 = @ \cup {i}]
                    IN
                    IF pay.ttype = ttype /\ Str(pay.tid) = tid
                    THEN [got EXCEPT !.pays = saved, !.err = "PAY_EXISTING_SUCCESS"]
                    ELSE Reconcile(saved, Tail(ids), unv, vresp, ttype, tid, got)
              [] OTHER ->
                    Reconcile([pays EXCEPT ![i].status = "FAILED"], Tail(ids), unv, vresp,
                              ttype, tid, [called EXCEPT !.recFail = @ \cup {i}])
        ELSE Reconcile(pays, Tail(ids), unv, vresp, ttype, tid, acc)

NoReq == [user |-> 0, ttype |-> "none", tid |-> <<>>, amount |-> 0]

NoLedger(pays) ==
    [pays |-> pays, err |-> "none", gwVerify |-> 0, rec100 |-> {}, recFail |-> {},
     rresp |-> "none", newpay |-> 0, url |-> 0, req |-> NoReq]

\* Payment.objects.create(...): the row is stored when target_id converts.
CreatePayment(res, user, ttype, tid, amount, status, authority, reg_id, raising) ==
    LET conv == IntField(tid) IN
    IF ~conv.ok THEN [res EXCEPT !.err = "ValueError"]
    ELSE [res EXCEPT
            !.pays = Append(@, NewPayment(user, ttype, conv.v, amount, status,
                                          authority, reg_id)),
            !.err = raising,
            !.newpay = IF raising = "none" THEN Len(res.pays) + 1 ELSE 0,
            !.url = IF raising = "none" THEN authority ELSE 0]

\* The body of initiate_payment_for_target, up to its return or raise.
InitiateBody(pays, user, ttype, tid, amount, reg_id, unv, vresp, rresp) ==
    LET rec == Reconcile(pays, PendingIdsOf(pays, user), unv, vresp, ttype, tid,
                         [NoLedger(pays) EXCEPT !.req = [user |-> user, ttype |-> ttype,
                                                         tid |-> tid, amount |-> amount]])
    IN
    IF rec.err # "none" THEN rec
    ELSE
        LET asked == [rec EXCEPT !.rresp = rresp] IN
        CASE rresp = "transport" ->
                CreatePayment(asked, user, ttype, tid, amount, "PG_INITIATE_ERROR", 0,
                              reg_id, "PAY_INIT_FAILED")
          [] rresp = "refused" ->
                CreatePayment(asked, user, ttype, tid, amount, "PG_INITIATE_ERROR", 0,
                              reg_id, "PAY_GATEWAY_REFUSED")
          [] OTHER ->
                \* the gateway issues a fresh authority
                CreatePayment(asked, user, ttype, tid, amount, "PENDING",
                              Len(rec.pays) + 1, reg_id, "none")

\* @transaction.atomic on a ledger function: an exception leaving the block
\* rolls back every write made inside it.
AtomicLedger(before, res) ==
    IF res.err = "none" THEN res ELSE [res EXCEPT !.pays = before]

initiate_payment_for_target(pays, user, ttype, tid, amount, reg_id, gw) ==
    AtomicLedger(pays,
        InitiateBody(pays, user, ttype, tid, amount, reg_id, gw.unv, gw.vresp, gw.rresp))

\* The answers the gateway may give during one initiate call of a user: which
\* of the user's PENDING authorities it lists as unverified, its answer to the
\* verify of each, and its answer to the request.
PendingAuthorities(user) ==
    {payments[i].authority : i \in {j \in DOMAIN payments :
        payments[j].user = user /\ payments[j].status = "PENDING"}}

GatewayAnswers(user) ==
    UNION {{[unv |-> U, vresp |-> f, rresp |-> r] :
                f \in [U -> VerifyAnswers], r \in RequestAnswers} :
           U \in SUBSET PendingAuthorities(user)}

\* A gateway that lists nothing and accepts the request.
QuietGateway == [unv |-> {}, vresp |-> <<>>, rresp |-> "100"]

(***************************************************************************)
(* payment/services.py: verify_by_authority.                               *)
(***************************************************************************)
\* A lookup by authority alone.
PaymentForAnyUser(pays, user, authority) ==
    {i \in DOMAIN pays : pays[i].authority = authority}

\* Payment.objects.select_for_update().get(user=user, authority=authority)
PaymentFor(pays, user, authority) ==
    {i \in DOMAIN pays : pays[i].user = user /\ pays[i].authority = authority}

\* A test that lets a FAILED payment through to the gateway again.
AlreadyProcessedOnlyPaid(pay) == pay.status = "SUCCESSFUL"

\* "Already processed; return as-is"
AlreadyProcessed(pay) == pay.status # "PENDING"

\* The eager finalisation of metadata["reg_id"]; every exception is swallowed.
EagerFinalize(s, pay, user) ==
    IF pay.reg_id # 0 /\ pay.reg_id \in DOMAIN s.r /\ s.r[pay.reg_id].user = user
    THEN [s EXCEPT !.r = set_status_final(s.r, {pay.reg_id})]
    ELSE s

EagerFinalizeMails(s, pay, user) ==
    IF pay.reg_id # 0 /\ pay.reg_id \in DOMAIN s.r /\ s.r[pay.reg_id].user = user
    THEN set_status_final_mails(s.r, {pay.reg_id})
    ELSE EmptyBag

NoVerify(s) ==
    [s |-> s, err |-> "none", pay |-> 0, wasPending |-> FALSE, resp |-> "none",
     hook |-> "none", gwVerify |-> 0, mails |-> EmptyBag]

\* The body of verify_by_authority, up to its return or raise; resp is the
\* gateway's answer to _verify_payment.
VerifyBody(s, user, authority, resp) ==
    LET found == PaymentFor(s.p, user, authority) IN
    IF found = {} THEN [NoVerify(s) EXCEPT !.err = "PAY_NOT_FOUND_FOR_USER"]
    ELSE
        LET i == CHOOSE j \in found : TRUE
            pay == s.p[i]
            res == [NoVerify(s) EXCEPT !.pay = i]
        IN
        IF AlreadyProcessed(pay) THEN res
        ELSE
            LET called == [res EXCEPT !.wasPending = TRUE, !.resp = resp, !.gwVerify = 1] IN
            IF resp = "100" THEN
                LET saved == [s EXCEPT !.p[i].status = "SUCCESSFUL", !.p[i].ref = TRUE]
                    hooked == on_payment_success(saved, saved.p[i])
                IN
                IF hooked.err # "none"
                THEN [called EXCEPT !.s = hooked.s, !.hook = "success", !.err = hooked.err]
                ELSE [called EXCEPT !.s = EagerFinalize(hooked.s, pay, user),
                                    !.hook = "success",
                                    !.mails = hooked.mails
                                              (+) EagerFinalizeMails(hooked.s, pay, user)]
            ELSE
                \* a transport failure and a code other than 100 both store FAILED
                LET saved == [s EXCEPT !.p[i].status = "FAILED"]
                    hooked == on_payment_failure(saved, saved.p[i])
                IN
                [called EXCEPT !.s = hooked.s, !.hook = "failure", !.err = hooked.err,
                               !.mails = hooked.mails]

\* @transaction.atomic on a handler: an exception leaving it rolls the store back.
Atomic(before, res) ==
    IF res.err = "none" THEN res ELSE [res EXCEPT !.s = before, !.mails = EmptyBag]

verify_by_authority(s, user, authority, resp) ==
    Atomic(s, VerifyBody(s, user, authority, resp))

(***************************************************************************)
(* competitions/services.py.                                               *)
(*                                                                         *)
(* A handler body returns the store at its return or raise, the error it   *)
(* raised ("none" when it returned) and what the ledger did for it.        *)
(***************************************************************************)
\* Blocking statuses that let the members of a FINAL team join another one.
BlockingUntilFinal == {"PENDING_APPROVAL", "PENDING_INVESTIGATION", "PENDING_PAYMENT"}

BLOCKING_STATUSES == {"PENDING_APPROVAL", "PENDING_INVESTIGATION", "PENDING_PAYMENT", "FINAL"}

\* mails: the bag of notifications the handler queued, as <<to, status_code>>.
Out(s, err, led) == [s |-> s, err |-> err, led |-> led, mails |-> EmptyBag]

Mailed(res, mails) == [res EXCEPT !.mails = @ (+) mails]

\* str.lower() on the addresses of the model.
Lower(email) ==
    CASE email = "A" -> "a"
      [] email = "B" -> "b"
      [] OTHER -> email

\* email__iexact
participant_has_active_membership(t, competition, email) ==
    \E rid \in DOMAIN t :
        /\ t[rid].competition = competition
        /\ \E m \in DOMAIN t[rid].members : Lower(m) = Lower(email)
        /\ t[rid].status \in BLOCKING_STATUSES

\* The validation loop of submit_team_request over participants k..n; badAt is
\* the first participant whose fields validate_participant_payload refuses (0: none).
RECURSIVE ValidateParticipants(_, _, _, _, _, _)
ValidateParticipants(t, competition, parts, badAt, k, seen) ==
    IF k > Len(parts) THEN "none"
    ELSE IF k = badAt THEN "COMP_FIELD_INVALID"
    ELSE IF Lower(parts[k]) \in seen THEN "COMP_DUPLICATE_PARTICIPANT_EMAIL"
    ELSE IF participant_has_active_membership(t, competition, Lower(parts[k]))
         THEN "COMP_PARTICIPANT_ALREADY_ACTIVE"
    ELSE ValidateParticipants(t, competition, parts, badAt, k + 1,
                              seen \cup {Lower(parts[k])})

\* A member row created without an approval token.
NewMemberWithoutToken == [approval_status |-> "PENDING", token |-> FALSE, decided |-> FALSE]

NewMember == [approval_status |-> "PENDING", token |-> TRUE, decided |-> FALSE]

\* A submit that validates the participants before it looks at the team size.
submit_validating_first(s, competition, submitter, parts, badAt) ==
    LET c == Competition(competition)
        n == Len(parts)
        led == NoLedger(s.p)
        bad == ValidateParticipants(s.t, competition, parts, badAt, 1, {})
    IN
    IF bad # "none" THEN Out(s, bad, led)
    ELSE IF n < c.min_team_size \/ n > c.max_team_size
    THEN Out(s, "COMP_TEAM_SIZE_INVALID", led)
    ELSE
        LET tr == [competition |-> competition, submitter |-> submitter,
                   status |-> "PENDING_APPROVAL", payment_link |-> 0,
                   cleared |-> FALSE,
                   members |-> [e \in {parts[k] : k \in DOMAIN parts} |-> NewMember]]
        IN Mailed(Out([s EXCEPT !.t = Append(@, tr)], "none", led),
                  MailEach(DOMAIN tr.members, "COMPETITION_MEMBER_APPROVAL")
                  (+) Mail(UserEmail(submitter), "COMPETITION_REQUEST_SUBMITTED"))

submit_team_request(s, competition, submitter, parts, badAt) ==
    LET c == Competition(competition)
        n == Len(parts)
        led == NoLedger(s.p)
    IN
    IF n < c.min_team_size \/ n > c.max_team_size
    THEN Out(s, "COMP_TEAM_SIZE_INVALID", led)
    ELSE
        LET bad == ValidateParticipants(s.t, competition, parts, badAt, 1, {}) IN
        IF bad # "none" THEN Out(s, bad, led)
        ELSE
            LET tr == [competition |-> competition, submitter |-> submitter,
                       status |-> "PENDING_APPROVAL", payment_link |-> 0,
                       cleared |-> FALSE,
                       members |-> [e \in {parts[k] : k \in DOMAIN parts} |-> NewMember]]
            IN Mailed(Out([s EXCEPT !.t = Append(@, tr)], "none", led),
                      MailEach(DOMAIN tr.members, "COMPETITION_MEMBER_APPROVAL")
                      (+) Mail(UserEmail(submitter), "COMPETITION_REQUEST_SUBMITTED"))

\* A payment step that moves the request on without asking the ledger.
MoveToPaymentUnpaid(s, rid, cleared, gw) ==
    Out([s EXCEPT !.t[rid].status = "PENDING_PAYMENT", !.t[rid].cleared = cleared],
        "none", NoLedger(s.p))

\* The payment step shared by the last member approval and the backoffice
\* approval: initiate for the signup fee, then PENDING_PAYMENT with the link.
RequestPayment(s, rid, cleared, gw) ==
    LET tr == s.t[rid]
        led == initiate_payment_for_target(s.p, tr.submitter, "COMPETITION", Str(rid),
                   Competition(tr.competition).signup_fee, 0, gw)
    IN
    IF led.err # "none" THEN Out(s, "COMP_PAYMENT_INIT_FAILED", led)
    ELSE Mailed(Out([s EXCEPT !.p = led.pays,
                              !.t[rid].payment_link = led.url,
                              !.t[rid].status = "PENDING_PAYMENT",
                              !.t[rid].cleared = cleared],
                    "none", led),
                Mail(UserEmail(tr.submitter), "COMPETITION_REQUEST_PENDING_PAYMENT"))

\* A token that never expires.
TokenNeverExpires(age) == FALSE

\* approval_token_expires_at < timezone.now(), for a token used age days after
\* it was minted.
TokenExpired(age) == age > APPROVAL_TOKEN_TTL

\* A member row that keeps its token hash when the decision is recorded.
DecidedKeepingToken(accept) ==
    [approval_status |-> IF accept THEN "APPROVED" ELSE "REJECTED",
     token |-> TRUE, decided |-> TRUE]

\* A member row that records every decision as an approval.
DecidedAsApproved(accept) ==
    [approval_status |-> "APPROVED", token |-> FALSE, decided |-> TRUE]

\* The member row after the decision is recorded: status set, approval_at
\* stamped, token hash cleared.
Decided(accept) ==
    [approval_status |-> IF accept THEN "APPROVED" ELSE "REJECTED",
     token |-> FALSE, decided |-> TRUE]

\* token names the member of request rid it was minted for; late says that
\* approval_token_expires_at has passed.
approve_or_reject_member(s, rid, token, accept, late, gw) ==
    LET led == NoLedger(s.p) IN
    IF ~(rid \in DOMAIN s.t /\ token \in DOMAIN s.t[rid].members
         /\ s.t[rid].members[token].token)
    THEN Out(s, "COMP_INVALID_OR_EXPIRED_TOKEN", led)
    ELSE IF s.t[rid].members[token].approval_status # "PENDING" THEN Out(s, "none", led)
    ELSE IF late THEN Out(s, "COMP_TOKEN_EXPIRED", led)
    ELSE
        LET decided == [s EXCEPT !.t[rid].members[token] = Decided(accept)]
            tr == decided.t[rid]
            Has(st) == \E e \in DOMAIN tr.members : tr.members[e].approval_status = st
        IN
        IF tr.status # "PENDING_APPROVAL" THEN Out(decided, "none", led)
        ELSE IF Has("REJECTED")
             THEN Mailed(Out([decided EXCEPT !.t[rid].status = "REJECTED"], "none", led),
                         Mail(UserEmail(tr.submitter), "COMPETITION_REQUEST_REJECTED"))
        ELSE IF Has("PENDING") THEN Out(decided, "none", led)
        ELSE IF Competition(tr.competition).requires_backoffice_approval
             THEN Mailed(Out([decided EXCEPT !.t[rid].status = "PENDING_INVESTIGATION"],
                             "none", led),
                         Mail(UserEmail(tr.submitter),
                              "COMPETITION_REQUEST_PENDING_INVESTIGATION"))
        ELSE RequestPayment(decided, rid, FALSE, gw)

\* A cancel that does not look at the request's status.
cancel_request_any_state(s, rid, by_user) ==
    LET tr == s.t[rid]
        led == NoLedger(s.p)
    IN
    IF tr.submitter # by_user THEN Out(s, "COMP_ONLY_SUBMITTER_CAN_CANCEL", led)
    ELSE IF ~Competition(tr.competition).requires_backoffice_approval
         THEN Out(s, "COMP_CANCELLATION_NOT_APPLICABLE", led)
    ELSE Mailed(Out([s EXCEPT !.t[rid].status = "CANCELLED"], "none", led),
                Mail(UserEmail(tr.submitter), "COMPETITION_REQUEST_CANCELLED"))

cancel_request(s, rid, by_user) ==
    LET tr == s.t[rid]
        led == NoLedger(s.p)
    IN
    IF tr.submitter # by_user THEN Out(s, "COMP_ONLY_SUBMITTER_CAN_CANCEL", led)
    ELSE IF ~Competition(tr.competition).requires_backoffice_approval
         THEN Out(s, "COMP_CANCELLATION_NOT_APPLICABLE", led)
    ELSE IF tr.status \notin {"PENDING_APPROVAL", "PENDING_INVESTIGATION"}
         THEN Out(s, "COMP_CANCELLATION_NOT_ALLOWED_STATE", led)
    ELSE Mailed(Out([s EXCEPT !.t[rid].status = "CANCELLED"], "none", led),
                Mail(UserEmail(tr.submitter), "COMPETITION_REQUEST_CANCELLED"))

\* A backoffice approval that does not look at the request's status.
backoffice_approve_any_state(s, rid, gw) == RequestPayment(s, rid, TRUE, gw)

backoffice_approve_request(s, rid, gw) ==
    IF s.t[rid].status # "PENDING_INVESTIGATION"
    THEN Out(s, "COMP_NOT_IN_INVESTIGATION_STATE", NoLedger(s.p))
    ELSE RequestPayment(s, rid, TRUE, gw)

\* A backoffice rejection that notifies the submitter alone.
backoffice_reject_quietly(s, rid) ==
    IF s.t[rid].status \notin {"PENDING_INVESTIGATION", "PENDING_APPROVAL"}
    THEN Out(s, "COMP_BACKOFFICE_REJECT_INVALID_STATE", NoLedger(s.p))
    ELSE Mailed(Out([s EXCEPT !.t[rid].status = "REJECTED"], "none", NoLedger(s.p)),
                Mail(UserEmail(s.t[rid].submitter), "COMPETITION_REQUEST_REJECTED"))

backoffice_reject_request(s, rid) ==
    IF s.t[rid].status \notin {"PENDING_INVESTIGATION", "PENDING_APPROVAL"}
    THEN Out(s, "COMP_BACKOFFICE_REJECT_INVALID_STATE", NoLedger(s.p))
    ELSE Mailed(Out([s EXCEPT !.t[rid].status = "REJECTED"], "none", NoLedger(s.p)),
                MailEach(DOMAIN s.t[rid].members, "COMPETITION_REQUEST_REJECTED"))

(***************************************************************************)
(* presentations/services.py.                                              *)
(***************************************************************************)
\* A capacity test that never finds a course full.
_is_full_never(capacity, taken) == FALSE

\* A capacity test that lets one registration more than the capacity in.
_is_full_above(capacity, taken) == taken > capacity

_is_full(capacity, taken) ==
    IF capacity < 0 THEN FALSE            \* capacity is None
    ELSE IF capacity = 0 THEN TRUE
    ELSE taken >= capacity

\* Registrations that hold a seat of course c: APPROVED or FINAL, for c itself
\* or with c among the selected children.
SeatsTaken(r, c) ==
    Cardinality({i \in DOMAIN r :
        /\ r[i].status \in {"APPROVED", "FINAL"}
        /\ (r[i].course = c \/ c \in DOMAIN r[i].items)})

_is_full_by_count(r, c) == _is_full(Course(c).capacity, SeatsTaken(r, c))

RECURSIVE SumPrices(_, _)
SumPrices(items, cs) ==
    IF cs = {} THEN 0
    ELSE LET c == CHOOSE x \in cs : TRUE IN items[c] + SumPrices(items, cs \ {c})

_compute_total_amount(reg) ==
    Course(reg.course).price + SumPrices(reg.items, DOMAIN reg.items)

\* A set of ids in ascending order (the order the rows are listed in).
RECURSIVE Ascending(_)
Ascending(ids) ==
    IF ids = {} THEN <<>>
    ELSE LET m == CHOOSE x \in ids : \A y \in ids : x <= y
         IN  <<m>> \o Ascending(ids \ {m})

\* "parent,child1,child2"
BundleTargetId(reg) == <<reg.course>> \o Ascending(DOMAIN reg.items)

\* set_status_approved(reg) without an explicit link; amount is the override
\* or the computed total.
set_status_approved(s, id, amount, gw) ==
    LET reg == s.r[id]
        led == initiate_payment_for_target(s.p, reg.user, "COURSE", BundleTargetId(reg),
                                           amount, id, gw)
    IN
    IF led.err # "none" THEN Out(s, led.err, led)
    ELSE Out([s EXCEPT !.p = led.pays,
                       !.r[id].status = "APPROVED",
                       !.r[id].payment_link = led.url,
                       !.r[id].decided = TRUE],
             "none", led)

\* An auto-progress that asks for a payment whatever the total is.
_auto_progress_always_pays(s, id, gw) ==
    set_status_approved(s, id, _compute_total_amount(s.r[id]), gw)

_auto_progress_to_payment(s, id, gw) ==
    LET total == _compute_total_amount(s.r[id]) IN
    IF total <= 0
    THEN Out([s EXCEPT !.r[id].status = "FINAL", !.r[id].decided = TRUE,
                       !.r[id].payment_link = 0],
             "none", NoLedger(s.p))
    ELSE set_status_approved(s, id, total, gw)

\* A lookup that never finds the row of (course, user).
RegOfNobody(r, course, user) == {}

RegOf(r, course, user) == {i \in DOMAIN r : r[i].course = course /\ r[i].user = user}

NewRegistration(course, user) ==
    [course |-> course, user |-> user, status |-> "SUBMITTED", payment_link |-> 0,
     items |-> [c \in {} |-> 0], reason |-> FALSE, decided |-> FALSE]

\* The user's FINAL registrations.
finalized_regs(r, user) == {i \in DOMAIN r : r[i].user = user /\ r[i].status = "FINAL"}

\* Ownership read from the parent courses alone.
owned_parent_ids(r, user) == {r[i].course : i \in finalized_regs(r, user)}

\* owned_parent_ids | owned_child_ids
owned_ids(r, user) ==
    {r[i].course : i \in finalized_regs(r, user)}
        \cup UNION {DOMAIN r[i].items : i \in finalized_regs(r, user)}

\* The body of submit_registration; child_ids is the de-duplicated selection.
SubmitBody(s, course, user, child_ids, gw) ==
    LET led == NoLedger(s.p)
        valid_children == {c \in child_ids : c \in Course(course).children
                                             /\ Course(c).is_active}
    IN
    IF valid_children # child_ids THEN Out(s, "REG_CHILD_INVALID_SELECTION", led)
    ELSE IF course \in owned_ids(s.r, user) THEN Out(s, "REG_ALREADY_OWNED", led)
    ELSE IF valid_children \cap owned_ids(s.r, user) # {}
    THEN Out(s, "REG_CHILD_ALREADY_OWNED", led)
    ELSE
        LET forced_waitlist ==
                \/ _is_full_by_count(s.r, course)
                \/ \E c \in valid_children : _is_full_by_count(s.r, c)
            existing == RegOf(s.r, course, user)
            created == existing = {}
            got == IF created THEN [s EXCEPT !.r = Append(@, NewRegistration(course, user))]
                   ELSE s
            id == IF created THEN Len(s.r) + 1 ELSE CHOOSE i \in existing : TRUE
        IN
        IF ~created /\ got.r[id].status = "FINAL"
        THEN Out(got, "REG_ALREADY_FINAL_OR_APPROVED", led)
        ELSE
            LET saved == [got EXCEPT
                            !.r[id].reason = FALSE,
                            !.r[id].status = IF forced_waitlist THEN "RESERVED" ELSE "QUEUED",
                            !.r[id].items = [c \in valid_children |-> Course(c).price]]
                requires_approval ==
                    \/ Course(course).requires_approval
                    \/ \E c \in valid_children : Course(c).requires_approval
                    \/ forced_waitlist
            IN
            IF ~requires_approval /\ saved.r[id].status = "QUEUED"
            THEN _auto_progress_to_payment(saved, id, gw)
            ELSE Out(saved, "none", led)

\* A handler whose writes survive its exception.
NoRollback(before, res) == res

AtomicOut(before, res) ==
    IF res.err = "none" THEN res ELSE [res EXCEPT !.s = before, !.mails = EmptyBag]

submit_registration(s, course, user, child_ids, gw) ==
    AtomicOut(s, SubmitBody(s, course, user, child_ids, gw))

set_status_rejected(s, id) ==
    IF ~s.r[id].reason THEN Out(s, "REG_REJECTION_REASON_REQUIRED", NoLedger(s.p))
    ELSE Out([s EXCEPT !.r[id].status = "REJECTED", !.r[id].decided = TRUE],
             "none", NoLedger(s.p))

(***************************************************************************)
(* The record of the last handler call.  A call is followed by Respond,    *)
(* which hands the outcome to the caller; the next call starts after it.   *)
(***************************************************************************)
NoCall ==
    [op |-> "none", user |-> 0, target |-> 0, err |-> "none", led |-> NoLedger(<<>>),
     pay |-> 0, auth |-> 0, wasPending |-> FALSE, resp |-> "none", hook |-> "none",
     args |-> <<>>, mails |-> EmptyBag]

\* A workflow call: what the ledger did for it is kept without the rows.
Called(op, user, target, res) ==
    [NoCall EXCEPT !.op = op, !.user = user, !.target = target, !.err = res.err,
                   !.led = [res.led EXCEPT !.pays = <<>>], !.mails = res.mails]

\* The same with the call's further arguments.
CalledWith(op, user, target, args, res) ==
    [Called(op, user, target, res) EXCEPT !.args = args]

VerifyCalled(user, authority, res) ==
    [NoCall EXCEPT !.op = "verify", !.user = user, !.auth = authority, !.err = res.err,
                   !.pay = res.pay, !.wasPending = res.wasPending, !.resp = res.resp,
                   !.hook = res.hook, !.mails = res.mails,
                   !.led = [NoLedger(<<>>) EXCEPT !.gwVerify = res.gwVerify]]

\* The call's transaction commits; a run holds at most `records` team
\* requests and registrations.
CommitWithin(res, call, records) ==
    /\ last = NoCall
    /\ Len(res.s.p) <= MaxPayments
    /\ Len(res.s.t) + Len(res.s.r) <= records
    /\ payments' = res.s.p
    /\ requests' = res.s.t
    /\ regs' = res.s.r
    /\ last' = call
    /\ txns' = txns

Commit(res, call) == CommitWithin(res, call, MaxRecords)

\* The gateway answers a call draws: none unless the handler, run against a
\* quiet gateway, reaches the ledger.
AnswersFor(user, quiet) ==
    IF quiet.led.req = NoReq THEN {QuietGateway} ELSE GatewayAnswers(user)

Init ==
    /\ payments = <<>>
    /\ requests = <<>>
    /\ regs = <<>>
    /\ last = NoCall
    /\ txns = <<>>

Respond ==
    /\ last # NoCall
    /\ last' = NoCall
    /\ UNCHANGED <<payments, requests, regs, txns>>

(***************************************************************************)
(* Team request handlers.                                                  *)
(***************************************************************************)
\* Participant lists a submit is called with: too short, of the right size,
\* with a duplicate, and too long with a duplicate.
ParticipantLists == {<<"a">>, <<"a", "b">>, <<"a", "a">>, <<"a", "b", "a">>}

\* TeamRequestCreateView.post, for one of comps with one of lists.
SubmitTeamWith(comps, lists, records) ==
    /\ last = NoCall
    /\ \E u \in Submitters, c \in comps, parts \in lists :
        \E badAt \in 0..Len(parts) :
            LET res == AtomicOut(Store, submit_team_request(Store, c, u, parts, badAt))
            IN  CommitWithin(res, CalledWith("submit_team", u, c,
                                             [parts |-> parts, badAt |-> badAt], res),
                             records)

SubmitTeam == SubmitTeamWith(Comps, ParticipantLists, MaxRecords)

MemberDecisionWithin(records) ==
    /\ last = NoCall
    /\ \E rid \in DOMAIN requests, token \in Tokens, accept \in BOOLEAN, age \in Ages :
        \E gw \in AnswersFor(requests[rid].submitter,
                    approve_or_reject_member(Store, rid, token, accept,
                                             TokenExpired(age), QuietGateway)) :
            LET res == AtomicOut(Store,
                           approve_or_reject_member(Store, rid, token, accept,
                                                    TokenExpired(age), gw))
            IN  CommitWithin(res, CalledWith("approve_or_reject", 0, rid,
                                       [token |-> token, accept |-> accept, age |-> age],
                                       res), records)

MemberDecision == MemberDecisionWithin(MaxRecords)

CancelRequestWithin(records) ==
    /\ last = NoCall
    /\ \E rid \in DOMAIN requests, u \in Users :
        LET res == AtomicOut(Store, cancel_request(Store, rid, u))
        IN  CommitWithin(res, Called("cancel", u, rid, res), records)

CancelRequest == CancelRequestWithin(MaxRecords)

BackofficeApproveWithin(records) ==
    /\ last = NoCall
    /\ \E rid \in DOMAIN requests :
        \E gw \in AnswersFor(requests[rid].submitter,
                    backoffice_approve_request(Store, rid, QuietGateway)) :
            LET res == AtomicOut(Store, backoffice_approve_request(Store, rid, gw))
            IN  CommitWithin(res, Called("backoffice_approve", 0, rid, res), records)

BackofficeApprove == BackofficeApproveWithin(MaxRecords)

BackofficeRejectWithin(records) ==
    /\ last = NoCall
    /\ \E rid \in DOMAIN requests :
        LET res == AtomicOut(Store, backoffice_reject_request(Store, rid))
        IN  CommitWithin(res, Called("backoffice_reject", 0, rid, res), records)

BackofficeReject == BackofficeRejectWithin(MaxRecords)

\* TeamRequestAdmin.mark_final_selected: mark_payment_final on the selected row.
AdminMarkFinalWithin(records) ==
    /\ last = NoCall
    /\ \E rid \in DOMAIN requests :
        LET res == Out([Store EXCEPT !.t = mark_payment_final(@, rid)], "none",
                       NoLedger(payments))
        IN  CommitWithin(res, Called("mark_final", 0, rid, res), records)

AdminMarkFinal == AdminMarkFinalWithin(MaxRecords)

(***************************************************************************)
(* Course registration handlers.                                           *)
(***************************************************************************)
\* RegistrationCreateView.post, called by one of users for one of courses.
SubmitRegistrationBy(users, courses, selections, records) ==
    /\ last = NoCall
    /\ \E u \in users, c \in courses, child_ids \in selections :
        \E gw \in AnswersFor(u, submit_registration(Store, c, u, child_ids, QuietGateway)) :
            LET res == submit_registration(Store, c, u, child_ids, gw)
            IN  CommitWithin(res, CalledWith("submit_registration", u, c,
                                             [child_ids |-> child_ids], res),
                             records)

SubmitRegistration == SubmitRegistrationBy(Submitters, Courses, ChildSelections, MaxRecords)

\* RegistrationAdmin.approve_selected: set_status_approved(reg) on the row.
AdminApproveWithin(records) ==
    /\ last = NoCall
    /\ \E id \in DOMAIN regs :
        \E gw \in GatewayAnswers(regs[id].user) :
            LET res == AtomicOut(Store, set_status_approved(Store, id,
                                            _compute_total_amount(regs[id]), gw))
            IN  CommitWithin(res, Called("set_status_approved", 0, id, res), records)

AdminApprove == AdminApproveWithin(MaxRecords)

\* The backoffice fills in rejection_reason on the registration's form.
AdminSetReasonWithin(records) ==
    /\ last = NoCall
    /\ \E id \in DOMAIN regs :
        /\ ~regs[id].reason
        /\ LET res == Out([Store EXCEPT !.r[id].reason = TRUE], "none", NoLedger(payments))
           IN  CommitWithin(res, Called("set_reason", 0, id, res), records)

AdminSetReason == AdminSetReasonWithin(MaxRecords)

\* RegistrationAdmin.reject_selected: rows without a reason are skipped.
AdminRejectWithin(records) ==
    /\ last = NoCall
    /\ \E id \in DOMAIN regs :
        LET res == IF ~regs[id].reason THEN Out(Store, "none", NoLedger(payments))
                   ELSE AtomicOut(Store, set_status_rejected(Store, id))
        IN  CommitWithin(res, Called("set_status_rejected", 0, id, res), records)

AdminReject == AdminRejectWithin(MaxRecords)

\* RegistrationAdmin.finalize_selected passes the row itself where
\* set_status_final takes a list: len(reg) raises.
AdminFinalize ==
    /\ last = NoCall
    /\ \E id \in DOMAIN regs :
        LET res == Out(Store, "TypeError", NoLedger(payments))
        IN  Commit(res, Called("set_status_final", 0, id, res))

(***************************************************************************)
(* Payment handlers.                                                       *)
(***************************************************************************)
LedgerOut(s, led) == Out([s EXCEPT !.p = led.pays], led.err, led)

\* InitiatePaymentView.post: any authenticated user, any target.
PublicInitiate ==
    /\ last = NoCall
    /\ \E u \in Users, target \in PublicTargets, amount \in PublicAmounts :
        \E gw \in GatewayAnswers(u) :
            LET res == LedgerOut(Store,
                           initiate_payment_for_target(payments, u, target[1],
                               Str(target[2]), amount, 0, gw))
            IN  Commit(res, Called("initiate", u, target[2], res))

\* startpay(authority): a new attempt for the target of an earlier payment.
StartPay ==
    /\ last = NoCall
    /\ \E a \in 1..MaxPayments :
        LET rows == {i \in DOMAIN payments : payments[i].authority = a} IN
        IF rows = {} THEN
            LET res == Out(Store, "PAY_NOT_FOUND_FOR_USER", NoLedger(payments))
            IN  Commit(res, Called("startpay", 0, a, res))
        ELSE
            LET cur == payments[CHOOSE i \in rows : \A j \in rows : j <= i] IN
            \E gw \in GatewayAnswers(cur.user) :
                LET led == initiate_payment_for_target(payments, cur.user, cur.ttype,
                               Str(cur.tid), cur.amount, 0, gw)
                    res == IF led.err = "none" THEN LedgerOut(Store, led)
                           ELSE Out(Store, "COMP_PAYMENT_INIT_FAILED", led)
                IN  Commit(res, Called("startpay", cur.user, a, res))

\* VerifyPaymentView.post
VerifyWithin(records) ==
    /\ last = NoCall
    /\ \E u \in Users, a \in 1..MaxPayments, resp \in VerifyAnswers :
        LET res == verify_by_authority(Store, u, a, resp)
        IN  CommitWithin([s |-> res.s], VerifyCalled(u, a, res), records)

Verify == VerifyWithin(MaxRecords)

Next ==
    \/ SubmitTeam
    \/ MemberDecision
    \/ CancelRequest
    \/ BackofficeApprove
    \/ BackofficeReject
    \/ AdminMarkFinal
    \/ SubmitRegistration
    \/ AdminApprove
    \/ AdminSetReason
    \/ AdminReject
    \/ AdminFinalize
    \/ PublicInitiate
    \/ StartPay
    \/ Verify
    \/ Respond

Spec == Init /\ [][Next]_vars

(***************************************************************************)
(* Course registrations of several users: the registration handlers alone, *)
(* over the whole catalogue.                                               *)
(***************************************************************************)
MaxRegistrations == 3

Registrants == {1, 2, 3}

\* The free courses, and the child selections they are submitted with: none,
\* the child of course 2, and an id that is no course.
FreeLectures == {2, 4, 5, 6}
FreeSelections == {{}, {6}, {7}}

FreeSubmit ==
    SubmitRegistrationBy(Registrants, FreeLectures, FreeSelections, MaxRegistrations)

NextCourses ==
    \/ FreeSubmit
    \/ Respond

SpecCourses == Init /\ [][NextCourses]_vars

(***************************************************************************)
(* The seats of the paid course 1 (capacity 1, no approval needed): two    *)
(* users submit, the backoffice approves, the users verify their payments. *)
(***************************************************************************)
MaxSeatRegistrations == 2

PaidSubmit == SubmitRegistrationBy({1, 2}, {1}, {{}, {3}}, MaxSeatRegistrations)

SeatApprove == AdminApproveWithin(MaxSeatRegistrations)

SeatVerify == VerifyWithin(MaxSeatRegistrations)

NextSeats ==
    \/ PaidSubmit
    \/ SeatApprove
    \/ SeatVerify
    \/ Respond

SpecSeats == Init /\ [][NextSeats]_vars

(***************************************************************************)
(* Two team requests of one competition: the team handlers alone, with     *)
(* participant addresses that differ in case.                              *)
(***************************************************************************)
MaxTeams == 2

TeamLists == {<<"a", "b">>, <<"A", "b">>, <<"a", "A">>}

TeamSubmit == SubmitTeamWith({1}, TeamLists, MaxTeams)

TeamDecision == MemberDecisionWithin(MaxTeams)

TeamCancel == CancelRequestWithin(MaxTeams)

TeamApprove == BackofficeApproveWithin(MaxTeams)

TeamReject == BackofficeRejectWithin(MaxTeams)

TeamMarkFinal == AdminMarkFinalWithin(MaxTeams)

TeamVerify == VerifyWithin(MaxTeams)

NextTeams ==
    \/ TeamSubmit
    \/ TeamDecision
    \/ TeamCancel
    \/ TeamApprove
    \/ TeamReject
    \/ TeamMarkFinal
    \/ TeamVerify
    \/ Respond

SpecTeams == Init /\ [][NextTeams]_vars

(***************************************************************************)
(* Member decisions on one team request of any competition, the one        *)
(* without a fee included.                                                 *)
(***************************************************************************)
MaxFeeTeams == 1

FeeSubmit == SubmitTeamWith(Comps \cup FreeComps, {<<"a", "b">>}, MaxFeeTeams)

FeeDecision == MemberDecisionWithin(MaxFeeTeams)

NextFees ==
    \/ FeeSubmit
    \/ FeeDecision
    \/ Respond

SpecFees == Init /\ [][NextFees]_vars

(***************************************************************************)
(* Concurrent member decisions.                                            *)
(*                                                                         *)
(* approve_or_reject_member statement by statement, one call per member of *)
(* request 1, each call in its own transaction. The database is MySQL at   *)
(* Django's isolation level READ COMMITTED: a query sees the committed     *)
(* rows and the transaction's own writes; an UPDATE waits for the row lock *)
(* of another transaction's uncommitted write. The handler takes no lock   *)
(* of its own (no select_for_update).                                      *)
(***************************************************************************)
\* A call that has not run its first statement. member: the member row the
\* call has written, tr_status: the request status the call loaded, write:
\* the request status the call has written, newpays: the Payment rows it
\* has created.
NoTx ==
    [pc |-> "start", accept |-> FALSE, tr_status |-> "none", saved |-> FALSE,
     write |-> "none", payment_link |-> 0, newpays |-> <<>>, err |-> "none"]

\* The TeamRequest rows as the queries of call e see them.
View(e) ==
    IF txns[e].saved
    THEN [requests EXCEPT ![1].members[e] = Decided(txns[e].accept)]
    ELSE requests

\* Another call holds the row lock of the request: it has written the row
\* and not committed.
TeamRowLocked(e) ==
    \E f \in DOMAIN txns \ {e} : txns[f].pc = "return" /\ txns[f].write # "none"

InitConcurrent ==
    /\ payments = <<>>
    /\ regs = <<>>
    /\ last = NoCall
    /\ \E c \in Comps, u \in Submitters :
          requests = submit_team_request([p |-> <<>>, t |-> <<>>, r |-> <<>>],
                                         c, u, <<"a", "b">>, 0).s.t
    /\ txns = [e \in Emails |-> NoTx]

\* TeamMember.objects.select_related("request", ...).get(request_id, hash),
\* then the already-decided return.
TxGet(e) ==
    /\ txns[e].pc = "start"
    /\ \E accept \in BOOLEAN :
          txns' = [txns EXCEPT ![e] =
              IF ~requests[1].members[e].token
              THEN [@ EXCEPT !.pc = "rolled_back", !.err = "COMP_INVALID_OR_EXPIRED_TOKEN"]
              ELSE IF requests[1].members[e].approval_status # "PENDING"
              THEN [@ EXCEPT !.pc = "return", !.tr_status = requests[1].status]
              ELSE [@ EXCEPT !.pc = "got", !.accept = accept,
                             !.tr_status = requests[1].status]]
    /\ UNCHANGED <<payments, requests, regs, last>>

\* member.save(update_fields=[...]), then the test of the loaded tr.status.
TxSaveMember(e) ==
    /\ txns[e].pc = "got"
    /\ txns' = [txns EXCEPT ![e].saved = TRUE,
                            ![e].pc = IF txns[e].tr_status = "PENDING_APPROVAL"
                                      THEN "saved" ELSE "return"]
    /\ UNCHANGED <<payments, requests, regs, last>>

\* tr.members.filter(approval_status=REJECTED).exists()
TxAnyRejected(e) ==
    /\ txns[e].pc = "saved"
    /\ txns' = [txns EXCEPT ![e].pc =
            IF \E m \in DOMAIN View(e)[1].members :
                    View(e)[1].members[m].approval_status = "REJECTED"
            THEN "reject" ELSE "no_rejected"]
    /\ UNCHANGED <<payments, requests, regs, last>>

\* tr.status = REJECTED; tr.save(update_fields=["status"])
TxReject(e) ==
    /\ txns[e].pc = "reject"
    /\ ~TeamRowLocked(e)
    /\ txns' = [txns EXCEPT ![e].write = "REJECTED", ![e].pc = "return"]
    /\ UNCHANGED <<payments, requests, regs, last>>

\* not tr.members.filter(approval_status=PENDING).exists()
TxAnyPending(e) ==
    /\ txns[e].pc = "no_rejected"
    /\ txns' = [txns EXCEPT ![e].pc =
            IF \E m \in DOMAIN View(e)[1].members :
                    View(e)[1].members[m].approval_status = "PENDING"
            THEN "return" ELSE "all_approved"]
    /\ UNCHANGED <<payments, requests, regs, last>>

\* The advance of the request once nobody is pending: PENDING_INVESTIGATION,
\* or the payment initiation and PENDING_PAYMENT with its link. A failed
\* initiation raises and the transaction is rolled back.
TxAdvance(e) ==
    /\ txns[e].pc = "all_approved"
    /\ ~TeamRowLocked(e)
    /\ IF Competition(requests[1].competition).requires_backoffice_approval
       THEN txns' = [txns EXCEPT ![e].write = "PENDING_INVESTIGATION", ![e].pc = "return"]
       ELSE \E gw \in GatewayAnswers(requests[1].submitter) :
              LET res == RequestPayment([p |-> payments, t |-> View(e), r |-> regs],
                                        1, FALSE, gw)
              IN  txns' = [txns EXCEPT ![e] =
                      IF res.err # "none"
                      THEN [NoTx EXCEPT !.pc = "rolled_back", !.err = res.err]
                      ELSE [@ EXCEPT !.pc = "return",
                                     !.write = res.s.t[1].status,
                                     !.payment_link = res.s.t[1].payment_link,
                                     !.newpays = SubSeq(res.s.p, Len(payments) + 1,
                                                        Len(res.s.p))]]
    /\ UNCHANGED <<payments, requests, regs, last>>

\* The handler returns and transaction.atomic commits what the call wrote.
TxCommit(e) ==
    /\ txns[e].pc = "return"
    /\ Len(payments) + Len(txns[e].newpays) <= MaxPayments
    /\ txns' = [txns EXCEPT ![e].pc = "committed"]
    /\ payments' = payments \o txns[e].newpays
    /\ requests' =
          LET own == View(e) IN
          IF txns[e].write = "none" THEN own
          ELSE [own EXCEPT ![1].status = txns[e].write,
                           ![1].payment_link =
                               IF txns[e].write = "PENDING_PAYMENT"
                               THEN txns[e].payment_link ELSE @]
    /\ UNCHANGED <<regs, last>>

NextConcurrent ==
    \E e \in Emails :
        \/ TxGet(e)
        \/ TxSaveMember(e)
        \/ TxAnyRejected(e)
        \/ TxReject(e)
        \/ TxAnyPending(e)
        \/ TxAdvance(e)
        \/ TxCommit(e)

SpecConcurrent == InitConcurrent /\ [][NextConcurrent]_vars

(***************************************************************************)
(* Concurrent calls on one PENDING payment.                                *)
(*                                                                         *)
(* Payment 1 of user 1 is PENDING with authority 1.  Two verify calls for  *)
(* that authority and one initiate of the same user run each in its own    *)
(* transaction.  The first statement of verify_by_authority is             *)
(* select_for_update().get(user, authority), the first of initiate is      *)
(* select_for_update().filter(user, status=PENDING): each waits for the    *)
(* row lock and then reads the committed row; the lock is held until the   *)
(* transaction commits or rolls back.  The gateway is outside the          *)
(* transaction: a verify request it has received is not undone.            *)
(***************************************************************************)
LedgerCalls == {"V1", "V2", "I"}

\* The target and amount of the concurrent initiate (the public endpoint).
InitiateTarget == <<"COMPETITION", 2>>

\* pc: start, locked (holds the row lock of payment 1), called (the gateway
\* has answered the verify request), unlocked (an initiate that found no
\* PENDING payment), committed, rolled_back.
NoLedgerTx ==
    [pc |-> "start", resp |-> "none", called |-> FALSE, hooked |-> FALSE, err |-> "none"]

EmptyStore == [p |-> <<>>, t |-> <<>>, r |-> <<>>]

\* Stores with a PENDING payment 1 of user 1, each as the handlers leave it:
\* a team request of competition 2 approved by both members, a registration
\* of the priced course 1, and a payment made through the public endpoint
\* for a request id that names no request.
PendingPaymentStores ==
    LET submitted == submit_team_request(EmptyStore, 2, 1, <<"a", "b">>, 0).s
        first == approve_or_reject_member(submitted, 1, "a", TRUE, FALSE, QuietGateway).s
        team == approve_or_reject_member(first, 1, "b", TRUE, FALSE, QuietGateway).s
        course == submit_registration(EmptyStore, 1, 1, {}, QuietGateway).s
        orphan == [EmptyStore EXCEPT !.p =
                      initiate_payment_for_target(<<>>, 1, InitiateTarget[1],
                          Str(InitiateTarget[2]), 1, 0, QuietGateway).pays]
    IN  {team, course, orphan}

InitLedger ==
    /\ \E s \in PendingPaymentStores :
          /\ payments = s.p
          /\ requests = s.t
          /\ regs = s.r
    /\ last = NoCall
    /\ txns = [x \in LedgerCalls |-> NoLedgerTx]

\* Some other call holds the row lock of payment 1.
PaymentRowLocked(x) ==
    \E y \in DOMAIN txns \ {x} : txns[y].pc \in {"locked", "called"}

\* The locking read.  A verify that finds the payment processed returns it
\* as it is; an initiate that finds no PENDING payment goes on to the
\* payment request.
TxLockPayment(x) ==
    /\ txns[x].pc = "start"
    /\ ~PaymentRowLocked(x)
    /\ txns' = [txns EXCEPT ![x].pc =
            IF ~AlreadyProcessed(payments[1]) THEN "locked"
            ELSE IF x = "I" THEN "unlocked" ELSE "committed"]
    /\ UNCHANGED <<payments, requests, regs, last>>

\* _verify_payment for authority 1; the initiate asks only when the gateway
\* lists the authority as unverified.
TxGatewayVerify(x) ==
    /\ txns[x].pc = "locked"
    /\ \E resp \in VerifyAnswers \cup (IF x = "I" THEN {"unlisted"} ELSE {}) :
          txns' = [txns EXCEPT ![x].pc = "called", ![x].resp = resp,
                               ![x].called = (resp # "unlisted")]
    /\ UNCHANGED <<payments, requests, regs, last>>

\* The rest of verify_by_authority: the save, the hook, the return or the
\* exception; the transaction commits or is rolled back and the lock is
\* released.
TxFinishVerify(x) ==
    /\ x # "I"
    /\ txns[x].pc = "called"
    /\ LET res == verify_by_authority(Store, 1, 1, txns[x].resp) IN
          /\ payments' = res.s.p
          /\ requests' = res.s.t
          /\ regs' = res.s.r
          /\ txns' = [txns EXCEPT ![x].hooked = (res.hook # "none"),
                                  ![x].err = res.err,
                                  ![x].pc = IF res.err = "none" THEN "committed"
                                            ELSE "rolled_back"]
    /\ UNCHANGED last

\* The rest of initiate_payment_for_target: the reconciliation save, the
\* payment request and the new row; commit or rollback.
TxFinishInitiate(x) ==
    /\ x = "I"
    /\ txns[x].pc \in {"called", "unlocked"}
    /\ \E rresp \in RequestAnswers :
          LET listed == txns[x].called
              gw == [unv |-> IF listed THEN {1} ELSE {},
                     vresp |-> IF listed THEN [a \in {1} |-> txns[x].resp] ELSE <<>>,
                     rresp |-> rresp]
              led == initiate_payment_for_target(payments, 1, InitiateTarget[1],
                         Str(InitiateTarget[2]), 1, 0, gw)
          IN  /\ Len(led.pays) <= MaxPayments
              /\ payments' = led.pays
              /\ txns' = [txns EXCEPT ![x].err = led.err,
                                      ![x].pc = IF led.err = "none" THEN "committed"
                                                ELSE "rolled_back"]
    /\ UNCHANGED <<requests, regs, last>>

NextLedger ==
    \E x \in LedgerCalls :
        \/ TxLockPayment(x)
        \/ TxGatewayVerify(x)
        \/ TxFinishVerify(x)
        \/ TxFinishInitiate(x)

SpecLedger == InitLedger /\ [][NextLedger]_vars

(***************************************************************************)
(* Member decisions racing with a cancel or a backoffice reject of the     *)
(* same request. cancel_request and backoffice_reject_request are short    *)
(* transactions: a read of the row, the status test and the write, which   *)
(* waits while a member decision holds the row lock.                       *)
(***************************************************************************)
DecisionWriting == \E e \in DOMAIN txns : txns[e].pc = "return" /\ txns[e].write # "none"

\* CancelRequestView.post: cancel_request by the submitter of request 1.
TxCancelRequest ==
    /\ ~DecisionWriting
    /\ LET res == AtomicOut(Store, cancel_request(Store, 1, requests[1].submitter))
       IN  requests' = res.s.t
    /\ UNCHANGED <<payments, regs, last, txns>>

\* TeamRequestAdmin.reject_selected: backoffice_reject_request on request 1.
TxBackofficeReject ==
    /\ ~DecisionWriting
    /\ LET res == AtomicOut(Store, backoffice_reject_request(Store, 1))
       IN  requests' = res.s.t
    /\ UNCHANGED <<payments, regs, last, txns>>

NextDecisionRace ==
    \/ NextConcurrent
    \/ TxCancelRequest
    \/ TxBackofficeReject

SpecDecisionRace == InitConcurrent /\ [][NextDecisionRace]_vars

(***************************************************************************)
(* Properties.                                                             *)
(***************************************************************************)
PaidFor(rid) ==
    \E i \in DOMAIN payments :
        /\ payments[i].ttype = "COMPETITION"
        /\ payments[i].tid = rid
        /\ payments[i].status = "SUCCESSFUL"

\* C1: a TeamRequest that is FINAL has every member APPROVED, was cleared by
\* the backoffice when its competition requires backoffice approval, and has
\* a SUCCESSFUL payment targeting (COMPETITION, its id).
C1_FinalIsEarned ==
    \A rid \in DOMAIN requests :
        requests[rid].status = "FINAL" =>
            /\ \A e \in DOMAIN requests[rid].members :
                    requests[rid].members[e].approval_status = "APPROVED"
            /\ Competition(requests[rid].competition).requires_backoffice_approval
                    => requests[rid].cleared
            /\ PaidFor(rid)

\* C2: once a TeamRequest is FINAL, REJECTED, CANCELLED or PAYMENT_REJECTED,
\* no step changes its status.
C2_TerminalRequestStays ==
    [][\A rid \in DOMAIN requests :
          requests[rid].status \in {"FINAL", "REJECTED", "CANCELLED", "PAYMENT_REJECTED"}
              => requests'[rid].status = requests[rid].status]_vars

\* C3: once a Registration is FINAL, REJECTED or CANCELLED no step changes its
\* status; a step makes it REJECTED only from a status before FINAL and
\* APPROVED only from QUEUED or RESERVED.
C3_TerminalRegistrationStays ==
    [][\A id \in DOMAIN regs :
          /\ regs[id].status \in {"FINAL", "REJECTED", "CANCELLED"}
                => regs'[id].status = regs[id].status
          /\ (regs'[id].status = "REJECTED" /\ regs[id].status # "REJECTED")
                => regs[id].status \in {"SUBMITTED", "QUEUED", "RESERVED", "APPROVED"}
          /\ (regs'[id].status = "APPROVED" /\ regs[id].status # "APPROVED")
                => regs[id].status \in {"QUEUED", "RESERVED"}]_vars

\* C4: after a call in which initiate failed at the gateway-request step
\* (PAY_INIT_FAILED or PAY_GATEWAY_REFUSED), directly or inside a workflow
\* operation, the store holds a PG_INITIATE_ERROR payment for the user, target
\* and amount of the request.
C4_InitiateErrorIsRecorded ==
    last.led.err \in {"PAY_INIT_FAILED", "PAY_GATEWAY_REFUSED"} =>
        \E i \in DOMAIN payments :
            /\ payments[i].status = "PG_INITIATE_ERROR"
            /\ payments[i].user = last.led.req.user
            /\ payments[i].ttype = last.led.req.ttype
            /\ Str(payments[i].tid) = last.led.req.tid
            /\ payments[i].amount = last.led.req.amount

\* C5: a step in which a payment of a COMPETITION target becomes SUCCESSFUL
\* leaves the TeamRequest it names FINAL, a step in which a payment that
\* originated from a Registration becomes SUCCESSFUL leaves that Registration
\* FINAL, and a step in which a PENDING payment of a COMPETITION target
\* becomes FAILED leaves its TeamRequest PAYMENT_REJECTED.
C5_SettledPaymentIsApplied ==
    [][\A i \in DOMAIN payments :
          /\ (payments[i].status # "SUCCESSFUL" /\ payments'[i].status = "SUCCESSFUL")
                => /\ (payments[i].ttype = "COMPETITION" /\ payments[i].tid \in DOMAIN requests)
                        => requests'[payments[i].tid].status = "FINAL"
                   /\ (payments[i].ttype = "COURSE" /\ payments[i].reg_id \in DOMAIN regs)
                        => regs'[payments[i].reg_id].status = "FINAL"
          /\ (payments[i].status = "PENDING" /\ payments'[i].status = "FAILED"
              /\ payments[i].ttype = "COMPETITION" /\ payments[i].tid \in DOMAIN requests)
                => requests'[payments[i].tid].status = "PAYMENT_REJECTED"]_vars

\* C6: after a call that ran initiate, every payment for which the
\* reconciliation step got code 100 is stored SUCCESSFUL, whether initiate
\* returned or failed, and every one for which it got another code is stored
\* FAILED; when initiate failed with PAY_EXISTING_SUCCESS no payment was created.
C6_ReconciliationIsStored ==
    /\ \A i \in last.led.rec100 : payments[i].status = "SUCCESSFUL"
    /\ \A i \in last.led.recFail : payments[i].status = "FAILED"
    /\ last.led.err = "PAY_EXISTING_SUCCESS" => last.led.newpay = 0

PaymentsOf(user, ttype, tid, status) ==
    {i \in DOMAIN payments :
        /\ payments[i].user = user
        /\ payments[i].ttype = ttype
        /\ payments[i].tid = tid
        /\ payments[i].status = status}

\* C7: for every user and target at most one payment is SUCCESSFUL and at
\* most one is PENDING.
C7_SingleFlight ==
    \A i \in DOMAIN payments :
        LET pay == payments[i] IN
        /\ Cardinality(PaymentsOf(pay.user, pay.ttype, pay.tid, "SUCCESSFUL")) <= 1
        /\ Cardinality(PaymentsOf(pay.user, pay.ttype, pay.tid, "PENDING")) <= 1

\* C8: a verify call that finds a payment whose status is not PENDING returns
\* without an error, calls neither the gateway nor a hook, and leaves every
\* Payment, TeamRequest and Registration as it was.
C8_VerifyProcessedIsNoOp ==
    [][(/\ last'.op = "verify"
        /\ last'.pay \in DOMAIN payments
        /\ payments[last'.pay].status # "PENDING")
          => /\ last'.err = "none"
             /\ last'.hook = "none"
             /\ last'.led.gwVerify = 0
             /\ payments' = payments
             /\ requests' = requests
             /\ regs' = regs]_vars

\* A verify call has returned the SUCCESSFUL payment of a FINAL request.
C8_Witness ==
    /\ last.op = "verify"
    /\ last.pay \in DOMAIN payments
    /\ ~last.wasPending
    /\ last.err = "none"
    /\ payments[last.pay].status = "SUCCESSFUL"
    /\ payments[last.pay].ttype = "COMPETITION"
    /\ payments[last.pay].tid \in DOMAIN requests
    /\ requests[payments[last.pay].tid].status = "FINAL"

\* C9: after a verify call on a PENDING payment the payment is SUCCESSFUL
\* with its ref id when the gateway answered 100 and the success hook ran,
\* and FAILED when the gateway failed or answered another code and the
\* failure hook ran; it is never still PENDING.
C9_VerifySettles ==
    (last.op = "verify" /\ last.wasPending) =>
        /\ payments[last.pay].status # "PENDING"
        /\ last.resp = "100" =>
                /\ payments[last.pay].status = "SUCCESSFUL"
                /\ payments[last.pay].ref
                /\ last.hook = "success"
        /\ last.resp # "100" =>
                /\ payments[last.pay].status = "FAILED"
                /\ last.hook = "failure"

HoldsToken(rid, token) ==
    rid \in DOMAIN requests /\ token \in DOMAIN requests[rid].members

\* C11: an approve_or_reject call with the token of a member that an earlier
\* call with that token has decided raises no error and changes no member,
\* request or payment, whatever its accept.
C11_SecondDecisionIsIdempotent ==
    [][(/\ last'.op = "approve_or_reject"
        /\ HoldsToken(last'.target, last'.args.token)
        /\ requests[last'.target].members[last'.args.token].decided)
          => /\ last'.err = "none"
             /\ requests' = requests
             /\ payments' = payments]_vars

\* C12: a member whose decision is recorded has its token hash cleared and is
\* not PENDING, and no step changes its approval_status or decision time.
C12_TokenIsSingleUse ==
    [][\A rid \in DOMAIN requests : \A e \in DOMAIN requests[rid].members :
          requests[rid].members[e].decided
              => /\ ~requests[rid].members[e].token
                 /\ requests[rid].members[e].approval_status # "PENDING"
                 /\ requests'[rid].members[e] = requests[rid].members[e]]_vars

\* A call presented the token of a member that is already decided.
C12_Witness ==
    /\ last.op = "approve_or_reject"
    /\ HoldsToken(last.target, last.args.token)
    /\ requests[last.target].members[last.args.token].decided
    /\ last.err = "COMP_INVALID_OR_EXPIRED_TOKEN"

\* C13: an approve_or_reject call with the token of a PENDING member, made
\* after the token's expiry, fails with COMP_TOKEN_EXPIRED and leaves the
\* member, its token, and the request's status and payment_link as they were.
C13_ExpiredTokenIsRefused ==
    [][(/\ last'.op = "approve_or_reject"
        /\ last'.args.age > APPROVAL_TOKEN_TTL
        /\ HoldsToken(last'.target, last'.args.token)
        /\ requests[last'.target].members[last'.args.token].token
        /\ requests[last'.target].members[last'.args.token].approval_status = "PENDING")
          => /\ last'.err = "COMP_TOKEN_EXPIRED"
             /\ requests' = requests
             /\ payments' = payments]_vars

\* A call with the expired token of a PENDING member has been refused.
C13_Witness ==
    /\ last.op = "approve_or_reject"
    /\ last.args.age > APPROVAL_TOKEN_TTL
    /\ last.err = "COMP_TOKEN_EXPIRED"
    /\ HoldsToken(last.target, last.args.token)
    /\ requests[last.target].members[last.args.token].approval_status = "PENDING"
    /\ requests[last.target].members[last.args.token].token

\* C15: when the payment initiation triggered by the member decision that
\* completes the approvals fails, the call fails with COMP_PAYMENT_INIT_FAILED
\* and the request, its members (the deciding one still PENDING with its
\* token) and the payments are as before the call.
C15_FailedInitiationUndoesDecision ==
    [][(last'.op = "approve_or_reject" /\ last'.led.err # "none")
          => /\ last'.err = "COMP_PAYMENT_INIT_FAILED"
             /\ requests' = requests
             /\ payments' = payments
             /\ requests'[last'.target].status = "PENDING_APPROVAL"
             /\ requests'[last'.target].members[last'.args.token].approval_status = "PENDING"
             /\ requests'[last'.target].members[last'.args.token].token]_vars

\* The last approval of a request ran into a failed payment initiation.
C15_Witness ==
    /\ last.op = "approve_or_reject"
    /\ last.args.accept
    /\ last.led.err \in {"PAY_INIT_FAILED", "PAY_GATEWAY_REFUSED"}
    /\ last.err = "COMP_PAYMENT_INIT_FAILED"
    /\ \E e \in DOMAIN requests[last.target].members :
            requests[last.target].members[e].approval_status = "APPROVED"

\* C16: cancel succeeds exactly when the caller is the submitter, the
\* competition requires backoffice approval and the request is
\* PENDING_APPROVAL or PENDING_INVESTIGATION, and then sets CANCELLED;
\* otherwise it fails with the first of COMP_ONLY_SUBMITTER_CAN_CANCEL,
\* COMP_CANCELLATION_NOT_APPLICABLE, COMP_CANCELLATION_NOT_ALLOWED_STATE that
\* applies and leaves the request as it was.
C16_CancelRules ==
    [][last'.op = "cancel" =>
          LET rid == last'.target
              tr == requests[rid]
              mine == tr.submitter = last'.user
              applicable == Competition(tr.competition).requires_backoffice_approval
              open == tr.status \in {"PENDING_APPROVAL", "PENDING_INVESTIGATION"}
          IN  IF mine /\ applicable /\ open
              THEN /\ last'.err = "none"
                   /\ requests'[rid].status = "CANCELLED"
              ELSE /\ last'.err = IF ~mine THEN "COMP_ONLY_SUBMITTER_CAN_CANCEL"
                                  ELSE IF ~applicable THEN "COMP_CANCELLATION_NOT_APPLICABLE"
                                  ELSE "COMP_CANCELLATION_NOT_ALLOWED_STATE"
                   /\ requests' = requests]_vars

\* The submitter's cancel of a request past investigation has been refused.
C16_Witness ==
    /\ last.op = "cancel"
    /\ last.err = "COMP_CANCELLATION_NOT_ALLOWED_STATE"
    /\ requests[last.target].status = "PENDING_PAYMENT"

\* C17: backoffice approve of a request in PENDING_INVESTIGATION initiates a
\* payment of the signup fee for the submitter and sets PENDING_PAYMENT with
\* the returned link; from another status, or when the initiation fails, it
\* fails and leaves status, payment_link and payments as they were.
C17_BackofficeApproveRules ==
    [][last'.op = "backoffice_approve" =>
          LET rid == last'.target
              tr == requests[rid]
          IN  IF tr.status # "PENDING_INVESTIGATION"
              THEN /\ last'.err = "COMP_NOT_IN_INVESTIGATION_STATE"
                   /\ requests' = requests
                   /\ payments' = payments
              ELSE IF last'.led.err # "none"
              THEN /\ last'.err = "COMP_PAYMENT_INIT_FAILED"
                   /\ requests' = requests
                   /\ payments' = payments
              ELSE /\ last'.err = "none"
                   /\ requests'[rid].status = "PENDING_PAYMENT"
                   /\ requests'[rid].payment_link = last'.led.url
                   /\ last'.led.newpay = Len(payments')
                   /\ LET pay == payments'[last'.led.newpay] IN
                        /\ pay.status = "PENDING"
                        /\ pay.authority = last'.led.url
                        /\ pay.user = tr.submitter
                        /\ pay.ttype = "COMPETITION"
                        /\ pay.tid = rid
                        /\ pay.amount = Competition(tr.competition).signup_fee]_vars

\* A backoffice approve of a request that was not under investigation has
\* been refused.
C17_Witness ==
    /\ last.op = "backoffice_approve"
    /\ last.err = "COMP_NOT_IN_INVESTIGATION_STATE"
    /\ requests[last.target].status = "PENDING_APPROVAL"

\* C18: backoffice reject of a request in PENDING_INVESTIGATION or
\* PENDING_APPROVAL sets REJECTED and queues one rejection notification per
\* member; from another status it fails, changes nothing and notifies nobody.
C18_BackofficeRejectRules ==
    [][last'.op = "backoffice_reject" =>
          LET rid == last'.target
              tr == requests[rid]
          IN  IF tr.status \in {"PENDING_INVESTIGATION", "PENDING_APPROVAL"}
              THEN /\ last'.err = "none"
                   /\ requests'[rid].status = "REJECTED"
                   /\ \A e \in DOMAIN tr.members :
                        CopiesIn(<<e, "COMPETITION_REQUEST_REJECTED">>, last'.mails) = 1
                   /\ BagCardinality(last'.mails) = Cardinality(DOMAIN tr.members)
              ELSE /\ last'.err = "COMP_BACKOFFICE_REJECT_INVALID_STATE"
                   /\ requests' = requests
                   /\ payments' = payments
                   /\ last'.mails = EmptyBag]_vars

\* A backoffice reject has notified both members of a request.
C18_Witness ==
    /\ last.op = "backoffice_reject"
    /\ last.err = "none"
    /\ requests[last.target].status = "REJECTED"
    /\ BagCardinality(last.mails) = 2

\* The number of participants is outside the competition's team size range.
SizeOutOfRange(competition, parts) ==
    \/ Len(parts) < Competition(competition).min_team_size
    \/ Len(parts) > Competition(competition).max_team_size

\* C19: a submit by a verified submitter whose team size is outside
\* [min_team_size, max_team_size] fails with COMP_TEAM_SIZE_INVALID whatever
\* the participants' fields, duplicates or existing memberships are, and
\* creates no request, no member and no notification.
C19_TeamSizeIsCheckedFirst ==
    [][(last'.op = "submit_team" /\ SizeOutOfRange(last'.target, last'.args.parts))
          => /\ last'.err = "COMP_TEAM_SIZE_INVALID"
             /\ requests' = requests
             /\ last'.mails = EmptyBag]_vars

\* A submit of the wrong size, with a refused field, a duplicate e-mail and a
\* participant who is already on an active team of the competition.
C19_Witness ==
    /\ last.op = "submit_team"
    /\ last.err = "COMP_TEAM_SIZE_INVALID"
    /\ last.args.parts = <<"a", "b", "a">>
    /\ last.args.badAt = 1
    /\ participant_has_active_membership(requests, last.target, "a")

\* C20: a successful submit creates exactly one request, PENDING_APPROVAL
\* without payment_link, with one member per participant, each PENDING with
\* a token that lives one day, and queues one approval notification per
\* member and one receipt to the submitter.
C20_SubmitCreatesPendingTeam ==
    [][(last'.op = "submit_team" /\ last'.err = "none") =>
          LET rid == Len(requests')
              parts == last'.args.parts
              emails == {parts[k] : k \in DOMAIN parts}
          IN  /\ rid = Len(requests) + 1
              /\ SubSeq(requests', 1, Len(requests)) = requests
              /\ payments' = payments
              /\ requests'[rid].competition = last'.target
              /\ requests'[rid].submitter = last'.user
              /\ requests'[rid].status = "PENDING_APPROVAL"
              /\ requests'[rid].payment_link = 0
              /\ DOMAIN requests'[rid].members = emails
              /\ Cardinality(emails) = Len(parts)
              /\ \A e \in emails :
                    /\ requests'[rid].members[e].approval_status = "PENDING"
                    /\ requests'[rid].members[e].token
                    /\ ~requests'[rid].members[e].decided
                    /\ CopiesIn(<<e, "COMPETITION_MEMBER_APPROVAL">>, last'.mails) = 1
              /\ APPROVAL_TOKEN_TTL = 1
              /\ CopiesIn(<<UserEmail(last'.user), "COMPETITION_REQUEST_SUBMITTED">>,
                          last'.mails) = 1
              /\ BagCardinality(last'.mails) = Len(parts) + 1]_vars

\* A team of two has been submitted.
C20_Witness ==
    /\ last.op = "submit_team"
    /\ last.err = "none"
    /\ Len(requests) = 1
    /\ requests[1].status = "PENDING_APPROVAL"
    /\ BagCardinality(last.mails) = 3

\* Every concurrent call has committed.
AllCommitted ==
    /\ DOMAIN txns # {}
    /\ \A e \in DOMAIN txns : txns[e].pc = "committed"

\* C14: whatever the interleaving of concurrent member decisions on one
\* PENDING_APPROVAL request, once every call has committed and every member
\* is APPROVED the request is PENDING_INVESTIGATION or PENDING_PAYMENT and
\* exactly one call performed the advance.
C14_ConcurrentApprovalsAdvanceOnce ==
    (/\ AllCommitted
     /\ \A e \in DOMAIN requests[1].members :
            requests[1].members[e].approval_status = "APPROVED")
        => /\ requests[1].status \in {"PENDING_INVESTIGATION", "PENDING_PAYMENT"}
           /\ Cardinality({e \in DOMAIN txns : txns[e].write # "none"}) = 1

\* Two participants of the list have the same address, whatever its case.
HasDuplicate(parts) ==
    \E i, j \in DOMAIN parts : i < j /\ Lower(parts[i]) = Lower(parts[j])

\* A participant of the list is, whatever the case of the address, a member
\* of a request of the competition that is pending or FINAL.
HasActiveMember(competition, parts) ==
    \E k \in DOMAIN parts, rid \in DOMAIN requests :
        /\ requests[rid].competition = competition
        /\ requests[rid].status \in {"PENDING_APPROVAL", "PENDING_INVESTIGATION",
                                      "PENDING_PAYMENT", "FINAL"}
        /\ \E m \in DOMAIN requests[rid].members : Lower(m) = Lower(parts[k])

\* C21: a team submit of the right size with valid fields fails with
\* COMP_DUPLICATE_PARTICIPANT_EMAIL when two participants have the same
\* address up to case, and with COMP_PARTICIPANT_ALREADY_ACTIVE when a
\* participant is a member of a PENDING_APPROVAL, PENDING_INVESTIGATION,
\* PENDING_PAYMENT or FINAL request of the competition; when both apply it
\* fails with one of the two; a failure creates nothing; membership in
\* REJECTED, CANCELLED or PAYMENT_REJECTED requests alone does not block.
C21_DuplicateAndActiveMembers ==
    [][(/\ last'.op = "submit_team"
        /\ last'.args.badAt = 0
        /\ ~SizeOutOfRange(last'.target, last'.args.parts)) =>
          LET dup == HasDuplicate(last'.args.parts)
              active == HasActiveMember(last'.target, last'.args.parts)
          IN  /\ (dup /\ ~active) => last'.err = "COMP_DUPLICATE_PARTICIPANT_EMAIL"
              /\ (active /\ ~dup) => last'.err = "COMP_PARTICIPANT_ALREADY_ACTIVE"
              /\ (dup /\ active) => last'.err \in {"COMP_DUPLICATE_PARTICIPANT_EMAIL",
                                                    "COMP_PARTICIPANT_ALREADY_ACTIVE"}
              /\ (dup \/ active) => (requests' = requests /\ last'.mails = EmptyBag)
              /\ (~dup /\ ~active) => (last'.err = "none"
                                        /\ Len(requests') = Len(requests) + 1)]_vars

\* The members of a team whose payment was rejected have been submitted
\* again, one address in another case, and the second request was created.
C21_Witness ==
    /\ last.op = "submit_team"
    /\ last.err = "none"
    /\ last.args.parts = <<"A", "b">>
    /\ Len(requests) = 2
    /\ requests[1].status = "PAYMENT_REJECTED"
    /\ DOMAIN requests[1].members = {"a", "b"}

\* No two Registration rows have the same course and user.
OnePerCourseAndUser(r) ==
    \A i, j \in DOMAIN r : (r[i].course = r[j].course /\ r[i].user = r[j].user) => i = j

\* The submit just made was for a (course, user) whose Registration was FINAL.
SubmitForFinal ==
    /\ last'.op = "submit_registration"
    /\ \E i \in DOMAIN regs : /\ regs[i].course = last'.target
                               /\ regs[i].user = last'.user
                               /\ regs[i].status = "FINAL"

\* C22 as stated: there is at most one Registration per (course, user), and a
\* submit for a (course, user) whose Registration is FINAL fails with
\* REG_ALREADY_FINAL_OR_APPROVED or REG_ALREADY_OWNED and leaves every
\* registration as it was.
C22_FinalRegistrationRefusesSubmit ==
    [][/\ OnePerCourseAndUser(regs')
       /\ SubmitForFinal =>
            /\ last'.err \in {"REG_ALREADY_FINAL_OR_APPROVED", "REG_ALREADY_OWNED"}
            /\ regs' = regs]_vars

\* C22 amended: the same, where the submit may also fail with
\* REG_CHILD_INVALID_SELECTION, the check that precedes the ownership guard.
C22_FinalRegistrationRefusesSubmitOrSelection ==
    [][/\ OnePerCourseAndUser(regs')
       /\ SubmitForFinal =>
            /\ last'.err \in {"REG_ALREADY_FINAL_OR_APPROVED", "REG_ALREADY_OWNED",
                               "REG_CHILD_INVALID_SELECTION"}
            /\ regs' = regs
            /\ payments' = payments]_vars

\* The owner of a FINAL registration has submitted for the same course again
\* and was refused, with three registrations in the store.
C22_Witness ==
    /\ last.op = "submit_registration"
    /\ last.err = "REG_ALREADY_OWNED"
    /\ Len(regs) = 3
    /\ \E i \in DOMAIN regs : /\ regs[i].course = last.target
                               /\ regs[i].user = last.user
                               /\ regs[i].status = "FINAL"

\* The registrations that are APPROVED or FINAL for course c, or with c among
\* their selected children.
SeatHolders(c) ==
    {i \in DOMAIN regs : /\ regs[i].status \in {"APPROVED", "FINAL"}
                         /\ (regs[i].course = c \/ c \in DOMAIN regs[i].items)}

\* The capacity policy: unset is never full, 0 is always full, N is full
\* when at least N registrations hold a seat.
FullByPolicy(c) ==
    IF c \in WithoutCapacity THEN FALSE
    ELSE IF Course(c).capacity = 0 THEN TRUE
    ELSE Cardinality(SeatHolders(c)) >= Course(c).capacity

\* C23: a successful submit leaves the registration RESERVED exactly when the
\* course or a selected child is full by the capacity policy (unset: never,
\* 0: always, N: at least N APPROVED or FINAL registrations), QUEUED and
\* RESERVED registrations not counted.
C23_CapacityPolicy ==
    [][(last'.op = "submit_registration" /\ last'.err = "none") =>
          \A id \in DOMAIN regs' :
              (regs'[id].course = last'.target /\ regs'[id].user = last'.user) =>
                  ((regs'[id].status = "RESERVED")
                     <=> \E c \in {last'.target} \cup last'.args.child_ids :
                            FullByPolicy(c))]_vars

\* Another user's registration of course c is APPROVED and its payment is
\* not settled.
ApprovedUnpaidByOther(c, user) ==
    \E i \in DOMAIN regs :
        /\ regs[i].course = c
        /\ regs[i].user # user
        /\ regs[i].status = "APPROVED"
        /\ \A k \in DOMAIN payments :
                payments[k].reg_id = i => payments[k].status # "SUCCESSFUL"

\* C24 (scenario B): on course 1 (capacity 1, a price, no approval needed) a
\* successful submit made while nobody holds a seat leaves the registration
\* APPROVED with the link of a newly initiated payment; a successful submit
\* of a second user made while the first registration is APPROVED and unpaid
\* leaves the second registration RESERVED and initiates no payment.
C24_SecondSubmitIsReserved ==
    [][(last'.op = "submit_registration" /\ last'.target = 1 /\ last'.err = "none") =>
          \A id \in DOMAIN regs' :
              (regs'[id].course = 1 /\ regs'[id].user = last'.user) =>
                  /\ (SeatHolders(1) = {} /\ last'.args.child_ids = {}) =>
                        /\ regs'[id].status = "APPROVED"
                        /\ last'.led.newpay = Len(payments) + 1
                        /\ regs'[id].payment_link = last'.led.url
                        /\ regs'[id].payment_link # 0
                        /\ payments'[last'.led.newpay].status = "PENDING"
                        /\ payments'[last'.led.newpay].amount = Course(1).price
                  /\ ApprovedUnpaidByOther(1, last'.user) =>
                        /\ regs'[id].status = "RESERVED"
                        /\ payments' = payments
                        /\ last'.led.req = NoReq]_vars

\* User 1 holds the seat of course 1 with a payment link, and user 2's submit
\* has ended RESERVED.
C24_Witness ==
    /\ last.op = "submit_registration"
    /\ last.user = 2
    /\ last.err = "none"
    /\ Len(regs) = 2
    /\ regs[1].user = 1 /\ regs[1].course = 1
    /\ regs[1].status = "APPROVED" /\ regs[1].payment_link # 0
    /\ regs[2].user = 2 /\ regs[2].course = 1 /\ regs[2].status = "RESERVED"
    /\ Len(payments) = 1

\* C25: for every course with a capacity of at least 1, the number of its
\* registrations in APPROVED or FINAL never exceeds the capacity.
C25_SeatsWithinCapacity ==
    \A c \in Courses :
        Course(c).capacity >= 1 => Cardinality(SeatHolders(c)) <= Course(c).capacity

\* The courses user holds through a FINAL registration, as its course or as
\* one of its items.
OwnedBy(user) ==
    {c \in Courses \cup FreeLectures :
        \E i \in DOMAIN regs :
            /\ regs[i].user = user
            /\ regs[i].status = "FINAL"
            /\ (regs[i].course = c \/ c \in DOMAIN regs[i].items)}

\* The selection names something that is not an active child of the course.
InvalidSelection(course, child_ids) ==
    \E c \in child_ids : ~(c \in Course(course).children /\ Course(c).is_active)

\* C26: a submit whose selection names a course that is not an active child
\* of the target fails with ChildInvalidSelection; otherwise a submit whose
\* target is the course or an item of a FINAL registration of the user fails
\* with AlreadyOwned; otherwise a submit with a selected child that is owned
\* in that way fails with ChildAlreadyOwned; each of the three failures
\* leaves every registration, its items and every payment as they were.
C26_AlreadyOwnedGuard ==
    [][last'.op = "submit_registration" =>
          LET u == last'.user
              c == last'.target
              sel == last'.args.child_ids
          IN  /\ InvalidSelection(c, sel) => last'.err = "REG_CHILD_INVALID_SELECTION"
              /\ (~InvalidSelection(c, sel) /\ c \in OwnedBy(u))
                    => last'.err = "REG_ALREADY_OWNED"
              /\ (~InvalidSelection(c, sel) /\ c \notin OwnedBy(u)
                                            /\ sel \cap OwnedBy(u) # {})
                    => last'.err = "REG_CHILD_ALREADY_OWNED"
              /\ last'.err \in {"REG_CHILD_INVALID_SELECTION", "REG_ALREADY_OWNED",
                                 "REG_CHILD_ALREADY_OWNED"}
                    => (regs' = regs /\ payments' = payments)]_vars

\* A submit for a course the user owns only as an item of a FINAL
\* registration of its parent has been refused with AlreadyOwned.
C26_Witness ==
    /\ last.op = "submit_registration"
    /\ last.err = "REG_ALREADY_OWNED"
    /\ \A i \in DOMAIN regs : regs[i].user = last.user => regs[i].course # last.target
    /\ \E i \in DOMAIN regs :
            /\ regs[i].user = last.user
            /\ regs[i].status = "FINAL"
            /\ last.target \in DOMAIN regs[i].items

\* The call just made is a verify that the gateway answered with code 100 for
\* a PENDING COURSE payment whose metadata names a registration of the
\* verifying user.
VerifiedCoursePayment ==
    /\ last'.op = "verify"
    /\ last'.wasPending
    /\ last'.resp = "100"
    /\ last'.pay \in DOMAIN payments
    /\ payments[last'.pay].ttype = "COURSE"
    /\ payments[last'.pay].reg_id \in DOMAIN regs
    /\ regs[payments[last'.pay].reg_id].user = last'.user

\* C27: when the gateway answers a verify with code 100 for a COURSE payment
\* whose metadata carries reg_id = r, a registration of the verifying user,
\* then r is FINAL with its decision time stamped when verify returns.
C27_VerifiedCourseIsFinal ==
    [][VerifiedCoursePayment =>
          /\ regs'[payments[last'.pay].reg_id].status = "FINAL"
          /\ regs'[payments[last'.pay].reg_id].decided]_vars

\* The courses a payment's target id names.
BundleOf(pay) ==
    IF pay.tid \in Int THEN {pay.tid} ELSE {pay.tid[k] : k \in DOMAIN pay.tid}

\* The call just made is a verify that ran the success hook for a COURSE
\* payment.
CourseSuccessHookRan ==
    /\ last'.op = "verify"
    /\ last'.hook = "success"
    /\ last'.pay \in DOMAIN payments
    /\ payments[last'.pay].ttype = "COURSE"

FailedVerification ==
    /\ last'.op = "verify"
    /\ last'.wasPending
    /\ last'.resp # "100"
    /\ last'.pay \in DOMAIN payments

\* C29: a failed verification of a COMPETITION payment whose target id is
\* the id of a TeamRequest leaves that request PAYMENT_REJECTED and the
\* payment FAILED, and queues one COMPETITION_PAYMENT_REJECTED notification,
\* to the submitter; a failed verification of a COURSE payment leaves the
\* registrations, their statuses and payment links as they were.
C29_FailedVerification ==
    [][FailedVerification =>
          LET pay == payments[last'.pay] IN
          /\ (pay.ttype = "COMPETITION" /\ pay.tid \in DOMAIN requests) =>
                /\ requests'[pay.tid].status = "PAYMENT_REJECTED"
                /\ payments'[last'.pay].status = "FAILED"
                /\ last'.mails = Mail(UserEmail(requests[pay.tid].submitter),
                                      "COMPETITION_PAYMENT_REJECTED")
          /\ pay.ttype = "COURSE" =>
                /\ DOMAIN regs' = DOMAIN regs
                /\ \A i \in DOMAIN regs :
                      /\ regs'[i].status = regs[i].status
                      /\ regs'[i].payment_link = regs[i].payment_link]_vars

\* A verification of a COMPETITION payment has failed and the request is
\* PAYMENT_REJECTED.
C29_Witness ==
    /\ last.op = "verify"
    /\ last.wasPending
    /\ last.resp # "100"
    /\ last.pay \in DOMAIN payments
    /\ payments[last.pay].ttype = "COMPETITION"
    /\ payments[last.pay].status = "FAILED"
    /\ requests[payments[last.pay].tid].status = "PAYMENT_REJECTED"
    /\ BagCardinality(last.mails) = 1

\* C30: no ledger operation ends in an uncaught gateway transport failure:
\* neither initiate (its listing, its reconciliation verifies, its request)
\* nor verify lets a RequestException leave it, to its caller or beyond.
C30_NoTransportFailureEscapes ==
    /\ last.led.err # "RequestException"
    /\ last.err # "RequestException"

\* The call just made is a member decision that was recorded: the token is
\* the one of a PENDING member of the request and the call returned.
DecisionRecorded ==
    /\ last'.op = "approve_or_reject"
    /\ last'.err = "none"
    /\ last'.args.token \in DOMAIN requests[last'.target].members
    /\ requests[last'.target].members[last'.args.token].token
    /\ requests[last'.target].members[last'.args.token].approval_status = "PENDING"

\* C31: while a request is PENDING_APPROVAL, a recorded member decision of
\* REJECTED leaves the request REJECTED in the same step, whatever the other
\* members have decided, queues one COMPETITION_REQUEST_REJECTED notification
\* to the submitter and initiates no payment.
C31_MemberRejectionRejectsRequest ==
    [][(DecisionRecorded /\ ~last'.args.accept
            /\ requests[last'.target].status = "PENDING_APPROVAL") =>
          LET rid == last'.target IN
          /\ requests'[rid].status = "REJECTED"
          /\ requests'[rid].members[last'.args.token].approval_status = "REJECTED"
          /\ \A e \in DOMAIN requests[rid].members \ {last'.args.token} :
                requests'[rid].members[e] = requests[rid].members[e]
          /\ last'.mails = Mail(UserEmail(requests[rid].submitter),
                                "COMPETITION_REQUEST_REJECTED")
          /\ payments' = payments
          /\ last'.led.req = NoReq]_vars

\* A member has rejected after another member approved, and the request is
\* REJECTED.
C31_Witness ==
    /\ last.op = "approve_or_reject"
    /\ last.err = "none"
    /\ ~last.args.accept
    /\ requests[last.target].status = "REJECTED"
    /\ requests[last.target].members[last.args.token].approval_status = "REJECTED"
    /\ \E e \in DOMAIN requests[last.target].members :
            requests[last.target].members[e].approval_status = "APPROVED"
    /\ BagCardinality(last.mails) = 1

\* Some member of request tr has the approval status st.
SomeMember(tr, st) ==
    \E e \in DOMAIN tr.members : tr.members[e].approval_status = st

\* C32: while a request is PENDING_APPROVAL, a recorded approving decision
\* leaves it PENDING_APPROVAL as long as some member is still PENDING; the
\* one after which no member is PENDING and none is REJECTED moves it to
\* PENDING_INVESTIGATION, with no payment, when the competition requires
\* backoffice approval, and otherwise initiates a payment of the signup fee,
\* a fee of 0 included, and moves the request to PENDING_PAYMENT with the
\* returned link stored.
C32_ApprovalsAdvanceRequest ==
    [][(DecisionRecorded /\ last'.args.accept
            /\ requests[last'.target].status = "PENDING_APPROVAL") =>
          LET rid == last'.target
              after == requests'[rid]
              comp == Competition(requests[rid].competition)
          IN
          /\ after.members[last'.args.token].approval_status = "APPROVED"
          /\ SomeMember(after, "PENDING") =>
                /\ after.status = "PENDING_APPROVAL"
                /\ payments' = payments
                /\ last'.led.req = NoReq
          /\ (~SomeMember(after, "PENDING") /\ ~SomeMember(after, "REJECTED")) =>
                IF comp.requires_backoffice_approval
                THEN /\ after.status = "PENDING_INVESTIGATION"
                     /\ payments' = payments
                     /\ last'.led.req = NoReq
                ELSE /\ after.status = "PENDING_PAYMENT"
                     /\ last'.led.req = [user |-> requests[rid].submitter,
                                         ttype |-> "COMPETITION", tid |-> Str(rid),
                                         amount |-> comp.signup_fee]
                     /\ last'.led.newpay = Len(payments) + 1
                     /\ payments'[last'.led.newpay].status = "PENDING"
                     /\ payments'[last'.led.newpay].amount = comp.signup_fee
                     /\ after.payment_link = last'.led.url
                     /\ after.payment_link # 0]_vars

\* The last approval of a team of the competition without a fee has
\* initiated a payment of 0 and the request is PENDING_PAYMENT.
C32_Witness ==
    /\ last.op = "approve_or_reject"
    /\ last.err = "none"
    /\ last.args.accept
    /\ requests[last.target].competition \in FreeComps
    /\ requests[last.target].status = "PENDING_PAYMENT"
    /\ requests[last.target].payment_link # 0
    /\ last.led.newpay \in DOMAIN payments
    /\ payments[last.led.newpay].amount = 0

\* Course c is full on its stored capacity: 0, or as many seat holders as
\* the capacity.
FullNow(c) ==
    \/ Course(c).capacity = 0
    \/ Cardinality(SeatHolders(c)) >= Course(c).capacity

\* The payment link the registration of (course, user) holds, 0 when there
\* is no such registration.
LinkBefore(course, user) ==
    IF \E i \in DOMAIN regs : regs[i].course = course /\ regs[i].user = user
    THEN regs[CHOOSE i \in DOMAIN regs :
                  regs[i].course = course /\ regs[i].user = user].payment_link
    ELSE 0

\* C33: a successful course submit leaves the registration RESERVED exactly
\* when the course or a selected child is full; otherwise it is QUEUED or
\* has progressed from QUEUED to APPROVED or FINAL.  A registration left
\* RESERVED is not progressed: the submit initiates no payment, creates no
\* payment row and writes no payment link, also when nothing requires
\* approval.
C33_ReservedWhenFull ==
    [][(last'.op = "submit_registration" /\ last'.err = "none") =>
          \A id \in DOMAIN regs' :
              (regs'[id].course = last'.target /\ regs'[id].user = last'.user) =>
                  LET full == \E c \in {last'.target} \cup last'.args.child_ids : FullNow(c)
                  IN  /\ full <=> regs'[id].status = "RESERVED"
                      /\ ~full => regs'[id].status \in {"QUEUED", "APPROVED", "FINAL"}
                      /\ full =>
                            /\ payments' = payments
                            /\ last'.led.req = NoReq
                            /\ regs'[id].payment_link
                                   = LinkBefore(last'.target, last'.user)]_vars

\* User 2 has submitted course 1, which needs no approval, while user 1
\* holds its only seat: the registration is RESERVED with no link and no
\* payment of user 2 exists.
C33_Witness ==
    /\ last.op = "submit_registration"
    /\ last.err = "none"
    /\ last.user = 2
    /\ last.target = 1
    /\ last.args.child_ids = {}
    /\ \E i \in DOMAIN regs : regs[i].user = 1 /\ regs[i].course = 1
                               /\ regs[i].status = "APPROVED"
    /\ \E i \in DOMAIN regs : regs[i].user = 2 /\ regs[i].course = 1
                               /\ regs[i].status = "RESERVED"
                               /\ regs[i].payment_link = 0
    /\ \A k \in DOMAIN payments : payments[k].user # 2

\* The price of course c with the selected children cs, at catalogue prices.
TotalPrice(c, cs) == Course(c).price + SumPrices([x \in cs |-> Course(x).price], cs)

\* The course or a selected child requires approval.
NeedsApproval(c, cs) ==
    Course(c).requires_approval \/ \E x \in cs : Course(x).requires_approval

C35_ApprovalRecordsBundlePayment ==
    [][(last'.op = "set_status_approved" /\ last'.led.rresp = "100") =>
          LET id == last'.target IN
          /\ last'.err = "none"
          /\ regs'[id].status = "APPROVED"
          /\ last'.led.newpay = Len(payments) + 1
          /\ payments'[last'.led.newpay].status = "PENDING"
          /\ payments'[last'.led.newpay].amount = _compute_total_amount(regs[id])
          /\ payments'[last'.led.newpay].reg_id = id
          /\ regs'[id].payment_link = last'.led.url]_vars

\* C36: whenever a verify makes a TeamRequest or a Registration FINAL, the
\* amount of the verified payment is what is due for that record at that
\* moment: the signup fee of the competition, or the course price plus the
\* prices of the registration's current items.
C36_FinalIsPaidInFull ==
    [][(last'.op = "verify" /\ last'.hook = "success" /\ last'.pay \in DOMAIN payments) =>
          LET pay == payments[last'.pay] IN
          /\ \A rid \in DOMAIN requests :
                (requests'[rid].status = "FINAL" /\ requests[rid].status # "FINAL") =>
                    pay.amount = Competition(requests[rid].competition).signup_fee
          /\ \A i \in DOMAIN regs :
                (regs'[i].status = "FINAL" /\ regs[i].status # "FINAL") =>
                    pay.amount = _compute_total_amount(regs[i])]_vars

\* The calls that sent a verify request for payment 1 to the gateway, and
\* the calls that ran its domain hook.
GatewayVerifyCalls == {x \in DOMAIN txns : txns[x].called}

HookRuns == {x \in DOMAIN txns : txns[x].hooked}

\* C37: under any interleaving of the calls that touch the PENDING payment,
\* the gateway verify is called at most once for it and its domain hook
\* runs at most once.
C37_PaymentSettledOnce ==
    /\ Cardinality(GatewayVerifyCalls) <= 1
    /\ Cardinality(HookRuns) <= 1

\* Request rid is in an active status.
ActiveRequest(rid) ==
    requests[rid].status \in
        {"PENDING_APPROVAL", "PENDING_INVESTIGATION", "PENDING_PAYMENT", "FINAL"}

\* C38: no e-mail address, compared without case, is a member of two
\* different team requests of the same competition that are both active
\* (PENDING_APPROVAL, PENDING_INVESTIGATION, PENDING_PAYMENT or FINAL).
C38_OneActiveTeamPerEmail ==
    \A r1 \in DOMAIN requests, r2 \in DOMAIN requests :
        (r1 # r2 /\ requests[r1].competition = requests[r2].competition
                 /\ ActiveRequest(r1) /\ ActiveRequest(r2)) =>
            \A e1 \in DOMAIN requests[r1].members, e2 \in DOMAIN requests[r2].members :
                Lower(e1) # Lower(e2)

\* A sequential member decision with a valid token of a PENDING member on a
\* request that is not PENDING_APPROVAL writes that member's row and nothing
\* else: the request's status and payment_link stay, no payment is initiated
\* and nothing is mailed.
DecisionOutsideApprovalIsFramed ==
    [][(DecisionRecorded /\ requests[last'.target].status # "PENDING_APPROVAL") =>
          LET rid == last'.target IN
          /\ requests' = [requests EXCEPT
                             ![rid].members[last'.args.token] = Decided(last'.args.accept)]
          /\ payments' = payments
          /\ regs' = regs
          /\ last'.led.req = NoReq
          /\ last'.mails = EmptyBag]_vars

\* A member has decided on a request that was already CANCELLED.
DecisionOutsideApprovalReached ==
    /\ last.op = "approve_or_reject"
    /\ last.err = "none"
    /\ requests[last.target].status = "CANCELLED"
    /\ requests[last.target].members[last.args.token].approval_status # "PENDING"

\* C39: a member decision on a request that is not PENDING_APPROVAL leaves
\* the request's status alone, also when the decision runs concurrently with
\* a cancel or a backoffice reject of the same request: once request 1 is
\* CANCELLED or REJECTED no step of a member decision changes its status.
C39_DecisionKeepsSettledStatus ==
    [][requests[1].status \in {"CANCELLED", "REJECTED"} =>
          requests'[1].status = requests[1].status]_vars

\* C40: a verify call that asked the gateway stores the gateway's answer:
\* SUCCESSFUL with the ref id for code 100, FAILED for any other code or a
\* failed call, also when the domain hook raises; the payment is not left
\* PENDING.
C40_StoredStatusFollowsGateway ==
    [][(last'.op = "verify" /\ last'.led.gwVerify > 0) =>
          LET stored == payments'[last'.pay] IN
          IF last'.resp = "100"
          THEN stored.status = "SUCCESSFUL" /\ stored.ref
          ELSE stored.status = "FAILED"]_vars

====
